---- MODULE Spec2Model ----
(***************************************************************************)
(* Luma: an LV2 host for plugins with an X11 GUI, running under JACK.      *)
(* State machine of LV2X11JackHost (src/LV2JackX11Host.hpp): the URID      *)
(* registry, the single-producer/single-reader ring buffers, the worker    *)
(* subsystem, the audio callback process(), the UI loop, the UI write      *)
(* path and the preset restore.                                            *)
(*                                                                         *)
(* Threads: the audio thread (JACK calls process), the worker thread       *)
(* (worker_thread_func) and the UI/main thread (run_ui_loop, ui_write,     *)
(* apply_preset).  Each thread has a program counter; one action is one    *)
(* step between two points where another thread can observe shared state.  *)
(***************************************************************************)
EXTENDS Integers, Sequences, FiniteSets, TLC

(***************************************************************************)
(* Bounds of the model.                                                    *)
(***************************************************************************)
\* number of distinct URIs handed to map_uri
NumUris == 4
\* capacity in bytes of the ring buffer checked on its own
RingSize == 5
\* number of bytes the producer of that ring buffer writes in total
MaxRingBytes == 8
\* capacity in bytes of the worker's request and response rings
WorkerRingSize == 12
\* number of requests schedule_work accepts in total
MaxReq == 2
\* number of responses host_respond accepts in total
MaxResp == 2
\* audio cycles are numbered up to this value; later cycles share it
CycleCap == 2
\* capacity in bytes of the DSP->UI ring buffer of an atom port
AtomRingSize == 19
\* number of events the plugin writes to an output sequence in one cycle
MaxEvents == 2

(***************************************************************************)
(* Program constants.                                                      *)
(***************************************************************************)
\* sizeof(uint32_t): the size header of a worker frame
SizeofU32 == 4
\* sizeof(LV2_Atom): {uint32_t size; uint32_t type}
SizeofAtom == 8
\* sizeof(float): the size of a control value
SizeofFloat == 4

nullptr == "nullptr"

Range(s) == {s[i] : i \in DOMAIN s}

IsPrefix(s, t) == Len(s) <= Len(t) /\ \A i \in 1..Len(s) : s[i] = t[i]

Min(a, b) == IF a < b THEN a ELSE b

Max(a, b) == IF a > b THEN a ELSE b

VARIABLES
    urid_map,       \* std::unordered_map<std::string, LV2_URID>
    urid_unmap,     \* std::unordered_map<LV2_URID, std::string>
    urid_log,       \* history: the URIs in the order map_uri first saw them
    urid_ret,       \* history: the last map_uri/unmap_uri call and its result
    ring,           \* a ring buffer with one producer and one reader
    ring_in,        \* history: every byte the producer wrote, in order
    ring_out,       \* history: every byte the reader read, in order
    ports,          \* std::vector<Port>: the descriptors, fixed after init_ports
    shutdown,       \* std::atomic<bool> shutdown
    run,            \* std::atomic<bool> run
    ui_dirty,       \* std::atomic<bool> ui_dirty
    ui_needs_initial_update,    \* std::atomic<bool> ui_needs_initial_update
    ui_needs_control_update,    \* std::atomic<bool> ui_needs_control_update
    jack_active,    \* jack_activate was called: the audio server calls process
    preset_uri,     \* std::string preset_uri
    control,        \* Port::control of every control port, by position in ports
    atom,           \* Port::atom of every atom port: the header and the events
    atom_state,     \* Port::atom_state of every atom port
    jack_midi,      \* the JACK MIDI buffer of every port with a MIDI registration
    ui_pc,          \* UI thread: where run_ui_loop stands
    ui_port,        \* UI thread: port index of the drain loop
    pushed,         \* history: the frames process() wrote to each DSP->UI ring,
                    \* not yet handed to the UI
    port_event,     \* history: the last call of the UI's port_event by the drain
                    \* of a DSP->UI ring
    cyc,            \* history: the events of the latest audio cycle, per port
    null_midi,      \* history: jack_midi_event_write was called with a null buffer
    consumed,       \* history: per atom input port, the MIDI events and the UI
                    \* message process() took at the start of the latest cycle,
                    \* and the sizes of its copies into the scratch event
    ui_written,     \* history: per control port, the value of the last ui_write
                    \* to it while nothing else wrote the cell since
    preset_call,    \* history: the arguments of the apply_preset that just
                    \* returned, and the cells before it
    broadcast,      \* history: what the UI loop's latest flag test handed to
                    \* the UI's port_event
    iface,          \* host_worker.iface is set: the plugin has a worker interface
    running,        \* host_worker.running
    requests,       \* host_worker.requests
    responses,      \* host_worker.responses
    a_pc,           \* audio thread: where process() stands
    a_data,         \* audio thread: payload of the schedule_work call in progress
    a_port,         \* audio thread: port index of the loop after run
    a_ev,           \* audio thread: event index of LV2_ATOM_SEQUENCE_FOREACH
    cycle,          \* history: number of the audio cycle in progress or last run
    w_pc,           \* worker thread: where worker_thread_func stands
    w_data,         \* worker thread: payload of the respond call in progress
    req_queue,      \* history: the requests schedule_work accepted, not yet worked
    work_call,      \* history: the last call of the plugin's work, and their number
    resp_queue,     \* history: the responses host_respond accepted, not yet delivered
    deliv_call,     \* history: the last call of work_response, and their number
    rt_alloc,       \* history: places where the audio thread allocated on the heap
    resp_ret,       \* history: the no-space return of host_respond in the work
                    \* call in progress
    sched_ret,      \* history: the last return of host_schedule_work in the
                    \* audio cycle in progress
    ring_access,    \* history: which thread read or wrote which worker ring
    world,          \* LilvWorld* world: "nullptr" or "live"
    nodes,          \* audio_class .. rsz_minimumSize: "nullptr", "garbage" (never
                    \* assigned), "live" or "freed"
    plugin,         \* const LilvPlugin* plugin: what the world says of the plugin
    jack,           \* jack_client_t* jack: "nullptr" or "live"
    instance,       \* LilvInstance* instance: "nullptr" or "live"
    activated,      \* the plugin instance is between activate and deactivate
    connected,      \* the ports lilv_instance_connect_port was called for
    rings,          \* the pointers host_worker.requests and responses: "nullptr",
                    \* "garbage" (never assigned) or "live"
    ui,             \* ui_dl, ui_desc, ui_handle, x_display and x_window
    closer,         \* who called the closeHost in progress
    close_n,        \* history: the number of closeHost calls that returned
    close_ops,      \* history: the release operations of the closeHost call in
                    \* progress, or of the last one
    acquired,       \* history: the resources acquired so far
    released,       \* history: the resources a release operation was applied to
    bad,            \* history: the release operations applied to a resource that
                    \* was not live
    init_log        \* history: the init stages that ran, and what they returned

urid_vars == <<urid_map, urid_unmap, urid_log, urid_ret>>
ring_vars == <<ring, ring_in, ring_out>>
flag_vars == <<run, ui_dirty, ui_needs_initial_update, ui_needs_control_update,
               jack_active, preset_uri>>
ctl_vars == <<ui_written, preset_call, broadcast>>
atom_vars == <<atom, atom_state, jack_midi>>
ui_vars == <<ui_pc, ui_port>>
obs_vars == <<pushed, port_event, cyc, null_midi>>
host_vars == <<ports, shutdown, consumed, flag_vars, control, atom_vars, ui_vars, obs_vars,
               ctl_vars>>
\* the host but for the place of the main thread
host_but_pc == <<ports, shutdown, consumed, flag_vars, control, atom_vars, ui_port, obs_vars,
                 ctl_vars>>
worker_vars == <<iface, running, requests, responses, w_pc, w_data>>
audio_vars == <<a_pc, a_data, a_port, a_ev, cycle>>
log_vars == <<req_queue, work_call, resp_queue, deliv_call, rt_alloc, resp_ret, sched_ret,
              ring_access>>
life_vars == <<world, nodes, plugin, jack, instance, activated, connected, rings, ui,
               closer, close_n, close_ops, acquired, released, bad, init_log>>
vars == <<urid_vars, ring_vars, host_vars, worker_vars, audio_vars, log_vars, life_vars>>
\* everything but the registry and the ring buffer checked on its own
rest_vars == <<host_vars, worker_vars, audio_vars, log_vars, life_vars>>

(***************************************************************************)
(* URID registry                                                           *)
(***************************************************************************)
\* the URIs of init_urids, in the order it maps them
AllUris ==
    << "atom:eventTransfer", "atom:Sequence", "atom:Blank", "atom:Chunk",
       "atom:Object", "atom:Float", "atom:Int", "midi:MidiEvent",
       "bufsz:maxBlockLength", "atom:Path", "patch:Get", "patch:Set",
       "patch:property", "patch:value" >>

Uris == {AllUris[i] : i \in 1..Min(NumUris, Len(AllUris))}

\* LV2_URID id = self->urid_map.size() + 1;
urid_fresh_bug(m) == Cardinality(DOMAIN m)
urid_fresh(m) == Cardinality(DOMAIN m) + 1

\* the value map_uri returns
map_uri_id(m, uri) ==
    IF uri \in DOMAIN m THEN m[uri] ELSE urid_fresh(m)

\* urid_map after map_uri
map_uri_map(m, uri) ==
    IF uri \in DOMAIN m THEN m ELSE (uri :> urid_fresh(m)) @@ m

\* urid_unmap after map_uri
map_uri_unmap(m, um, uri) ==
    IF uri \in DOMAIN m THEN um ELSE (urid_fresh(m) :> uri) @@ um

\* the value unmap_uri returns
unmap_uri(um, urid) ==
    IF urid \in DOMAIN um THEN um[urid] ELSE nullptr

EmptyMap == [x \in {} |-> 0]

\* a call of map_uri by the plugin, its UI or the host
map_uri_call(uri) ==
    /\ urid_map' = map_uri_map(urid_map, uri)
    /\ urid_unmap' = map_uri_unmap(urid_map, urid_unmap, uri)
    /\ urid_ret' = [op |-> "map", uri |-> uri, id |-> map_uri_id(urid_map, uri)]
    /\ urid_log' = IF uri \in Range(urid_log) THEN urid_log
                   ELSE Append(urid_log, uri)
    /\ UNCHANGED <<ring_vars, rest_vars>>

\* a call of unmap_uri
unmap_uri_call(urid) ==
    /\ urid_ret' = [op |-> "unmap", uri |-> unmap_uri(urid_unmap, urid), id |-> urid]
    /\ UNCHANGED <<urid_map, urid_unmap, urid_log>>
    /\ UNCHANGED <<ring_vars, rest_vars>>

(***************************************************************************)
(* Ring buffer (lv2_ringbuffer.h): a byte queue of fixed capacity with a   *)
(* write index owned by the producer and a read index owned by the reader. *)
(* One slot stays free, so that w = r means empty.                         *)
(***************************************************************************)
lv2_ringbuffer_create(sz) ==
    [size |-> sz, buf |-> [i \in 0..(sz - 1) |-> 0], w |-> 0, r |-> 0]

lv2_ringbuffer_read_space(rb) == (rb.w - rb.r + rb.size) % rb.size

lv2_ringbuffer_write_space_bug(rb) == rb.size - lv2_ringbuffer_read_space(rb)
lv2_ringbuffer_write_space(rb) == (rb.r - rb.w - 1 + rb.size) % rb.size

\* the ring after write(bytes): the bytes are stored, then the write index
\* is published; a write larger than the write space changes nothing
lv2_ringbuffer_write(rb, bytes) ==
    IF Len(bytes) > lv2_ringbuffer_write_space(rb) THEN rb
    ELSE [rb EXCEPT
            !.buf = [i \in 0..(rb.size - 1) |->
                        IF (i - rb.w + rb.size) % rb.size < Len(bytes)
                        THEN bytes[((i - rb.w + rb.size) % rb.size) + 1]
                        ELSE rb.buf[i]],
            !.w = (rb.w + Len(bytes)) % rb.size]

\* the bytes peek(n) copies out; nothing when n exceeds the read space
lv2_ringbuffer_peek(rb, n) ==
    IF n > lv2_ringbuffer_read_space(rb) THEN << >>
    ELSE [k \in 1..n |-> rb.buf[(rb.r + k - 1) % rb.size]]

\* the ring after read(n): the read index advances once the bytes are
\* copied.  The cells read are free again: no operation of the interface
\* reads a free cell, and the model keeps free cells at 0
lv2_ringbuffer_read(rb, n) ==
    IF n > lv2_ringbuffer_read_space(rb) THEN rb
    ELSE [rb EXCEPT
            !.buf = [i \in 0..(rb.size - 1) |->
                        IF (i - rb.r + rb.size) % rb.size < n
                        THEN 0 ELSE rb.buf[i]],
            !.r = (rb.r + n) % rb.size]

(***************************************************************************)
(* The ring buffer on its own: a producer writing chunks of bytes and a    *)
(* reader reading chunks, in any interleaving.                             *)
(***************************************************************************)
RingBytes == {1, 2}

RingChunks == {<<a>> : a \in RingBytes} \cup {<<a, b>> : a \in RingBytes, b \in {3}}

\* the producer writes a chunk that fits
RingWrite(bytes) ==
    /\ Len(ring_in) + Len(bytes) <= MaxRingBytes
    /\ Len(bytes) <= lv2_ringbuffer_write_space(ring)
    /\ ring' = lv2_ringbuffer_write(ring, bytes)
    /\ ring_in' = ring_in \o bytes
    /\ UNCHANGED ring_out
    /\ UNCHANGED <<urid_vars, rest_vars>>

\* the producer attempts a chunk larger than the write space
RingWriteFull(bytes) ==
    /\ Len(bytes) > lv2_ringbuffer_write_space(ring)
    /\ ring' = lv2_ringbuffer_write(ring, bytes)
    /\ UNCHANGED <<ring_in, ring_out>>
    /\ UNCHANGED <<urid_vars, rest_vars>>

\* the reader reads n bytes that are there
RingRead(n) ==
    /\ n <= lv2_ringbuffer_read_space(ring)
    /\ ring_out' = ring_out \o lv2_ringbuffer_peek(ring, n)
    /\ ring' = lv2_ringbuffer_read(ring, n)
    /\ UNCHANGED ring_in
    /\ UNCHANGED <<urid_vars, rest_vars>>

(***************************************************************************)
(* Worker subsystem.  A frame in either ring is [size: u32][payload].      *)
(***************************************************************************)
\* a uint32_t as its four bytes in memory (little endian), and back
Enc32(n) ==
    << n % 256, (n \div 256) % 256, (n \div 65536) % 256, (n \div 16777216) % 256 >>

Dec32(b) == b[1] + 256 * b[2] + 65536 * b[3] + 16777216 * b[4]

\* the payloads the plugin passes to schedule_work and to respond
Payloads == {<<65>>, <<90, 90>>}

\* if (lv2_ringbuffer_write_space(w->requests) < total) return NO_SPACE
worker_has_space_bug(rb, size) ==
    ~(lv2_ringbuffer_write_space(rb) < size)
worker_has_space(rb, size) ==
    ~(lv2_ringbuffer_write_space(rb) < SizeofU32 + size)

\* the whole frame is in the ring:
\* !(lv2_ringbuffer_read_space(rb) < sizeof(uint32_t) + size)
worker_frame_ready_bug(rb, size) == TRUE
worker_frame_ready(rb, size) ==
    ~(lv2_ringbuffer_read_space(rb) < SizeofU32 + size)

deliver_frame_ready_bug(rb, size) == TRUE
deliver_frame_ready_late(rb, size) ==
    ~(lv2_ringbuffer_read_space(rb) <= SizeofU32 + size)
deliver_frame_ready(rb, size) ==
    ~(lv2_ringbuffer_read_space(rb) < SizeofU32 + size)

\* the oldest message of a history queue, and the queue without it;
\* Missing when the queue holds none
Missing == [data |-> <<"missing">>, cycle |-> 0]

Oldest(q) == IF q = << >> THEN Missing ELSE Head(q)

Rest(q) == IF q = << >> THEN q ELSE Tail(q)

\* the number of requests and of responses accepted so far
NumRequests == work_call.n + Len(req_queue)

NumResponses == deliv_call.n + Len(resp_queue)

\* a read or a write of a worker ring by a thread
Access(ring_name, op, thread) == [ring |-> ring_name, op |-> op, thread |-> thread]

\* no call of schedule_work in this cycle yet
NoSchedRet == [status |-> "none", data |-> << >>]

\* the plugin's run calls schedule_work(size, data): host_schedule_work up
\* to the write of the size
host_schedule_work(data) ==
    /\ a_pc = "run"
    /\ iface
    /\ worker_has_space(requests, Len(data)) => NumRequests < MaxReq
    /\ IF worker_has_space(requests, Len(data))
       THEN /\ requests' = lv2_ringbuffer_write(requests, Enc32(Len(data)))
            /\ a_pc' = "sched"
            /\ a_data' = data
            /\ ring_access' = ring_access \cup {Access("requests", "write", "audio")}
            /\ UNCHANGED sched_ret
       ELSE \* return LV2_WORKER_ERR_NO_SPACE
            /\ sched_ret' = [status |-> "LV2_WORKER_ERR_NO_SPACE", data |-> data]
            /\ UNCHANGED <<requests, a_pc, a_data, ring_access>>
    /\ UNCHANGED <<a_port, a_ev, cycle>>
    /\ UNCHANGED <<req_queue, work_call, resp_queue, deliv_call, rt_alloc, resp_ret>>
    /\ UNCHANGED <<iface, running, responses, w_pc, w_data>>
    /\ UNCHANGED <<life_vars, urid_vars, ring_vars, host_vars>>

\* host_schedule_work: the write of the payload, and the return
host_schedule_work_data ==
    /\ a_pc = "sched"
    /\ requests' = lv2_ringbuffer_write(requests, a_data)
    /\ req_queue' = Append(req_queue, [data |-> a_data, cycle |-> cycle])
    /\ sched_ret' = [status |-> "LV2_WORKER_SUCCESS", data |-> a_data]
    /\ a_pc' = "run"
    /\ a_data' = << >>
    /\ UNCHANGED <<a_port, a_ev, cycle, work_call, resp_queue, deliv_call, rt_alloc, resp_ret,
                   ring_access>>
    /\ UNCHANGED <<iface, running, responses, w_pc, w_data>>
    /\ UNCHANGED <<life_vars, urid_vars, ring_vars, host_vars>>

\* worker_thread_func: no size header in the request ring: sleep 1 ms
worker_thread_sleep ==
    /\ w_pc = "loop"
    /\ running
    /\ lv2_ringbuffer_read_space(requests) < SizeofU32
    /\ UNCHANGED vars

\* worker_thread_func: peek the size; when the frame is complete read it
\* and call the plugin's work, else go round again
worker_thread_func ==
    /\ w_pc = "loop"
    /\ running
    /\ ~(lv2_ringbuffer_read_space(requests) < SizeofU32)
    /\ LET size == Dec32(lv2_ringbuffer_peek(requests, SizeofU32))
           rb1 == lv2_ringbuffer_read(requests, SizeofU32)
           buf == lv2_ringbuffer_peek(rb1, size)
           rb2 == lv2_ringbuffer_read(rb1, size)
       IN  IF worker_frame_ready(requests, size)
           THEN /\ requests' = rb2
                /\ work_call' = [n |-> work_call.n + 1, size |-> size, data |-> buf,
                                  req |-> Oldest(req_queue)]
                /\ req_queue' = Rest(req_queue)
                /\ w_pc' = "work"
           ELSE UNCHANGED <<requests, work_call, req_queue, w_pc>>
    /\ ring_access' = ring_access \cup {Access("requests", "read", "worker")}
    /\ UNCHANGED <<iface, running, responses, w_data>>
    /\ UNCHANGED <<resp_queue, deliv_call, rt_alloc, resp_ret, sched_ret>>
    /\ UNCHANGED <<life_vars, urid_vars, ring_vars, host_vars, audio_vars>>

\* the plugin's work calls respond(size, data): host_respond up to the
\* write of the size
\* if (lv2_ringbuffer_write_space(w->responses) < total) return LV2_WORKER_ERR_NO_SPACE
respond_has_space_bug(rb, size) == TRUE
respond_has_space(rb, size) == ~(lv2_ringbuffer_write_space(rb) < SizeofU32 + size)

host_respond(data) ==
    /\ w_pc = "work"
    /\ respond_has_space(responses, Len(data)) => NumResponses < MaxResp
    /\ IF respond_has_space(responses, Len(data))
       THEN /\ responses' = lv2_ringbuffer_write(responses, Enc32(Len(data)))
            /\ w_pc' = "respond"
            /\ w_data' = data
            /\ ring_access' = ring_access \cup {Access("responses", "write", "worker")}
            /\ resp_ret' = NoSchedRet
       ELSE \* return LV2_WORKER_ERR_NO_SPACE
            /\ resp_ret' = [status |-> "LV2_WORKER_ERR_NO_SPACE", data |-> data]
            /\ UNCHANGED <<responses, w_pc, w_data, ring_access>>
    /\ UNCHANGED <<iface, running, requests>>
    /\ UNCHANGED <<req_queue, work_call, resp_queue, deliv_call, rt_alloc, sched_ret>>
    /\ UNCHANGED <<life_vars, urid_vars, ring_vars, host_vars, audio_vars>>

\* host_respond: the write of the payload, and the return
host_respond_data ==
    /\ w_pc = "respond"
    /\ responses' = lv2_ringbuffer_write(responses, w_data)
    /\ resp_queue' = Append(resp_queue, [data |-> w_data, cycle |-> work_call.req.cycle])
    /\ w_pc' = "work"
    /\ w_data' = << >>
    /\ UNCHANGED <<iface, running, requests>>
    /\ UNCHANGED <<req_queue, work_call, deliv_call, rt_alloc, resp_ret, sched_ret, ring_access>>
    /\ UNCHANGED <<life_vars, urid_vars, ring_vars, host_vars, audio_vars>>

\* the plugin's work returns; the worker goes round its loop
plugin_work_return ==
    /\ w_pc = "work"
    /\ w_pc' = "loop"
    /\ resp_ret' = NoSchedRet
    /\ UNCHANGED <<iface, running, requests, responses, w_data>>
    /\ UNCHANGED <<req_queue, work_call, resp_queue, deliv_call, rt_alloc, sched_ret,
                   ring_access>>
    /\ UNCHANGED <<life_vars, urid_vars, ring_vars, host_vars, audio_vars>>

(***************************************************************************)
(* Atom ports                                                              *)
(***************************************************************************)
\* uint32_t required_atom_size = 8192
required_atom_size == 8192
\* sizeof(LV2_Atom_Event): {int64_t frames; LV2_Atom body}
SizeofEvent == 16
\* sizeof(LV2_Atom_Sequence_Body): {uint32_t unit; uint32_t pad}
SizeofSeqBody == 8

\* a port descriptor
Port(index, kind, is_input, is_midi, symbol, defvalue) ==
    [index |-> index, is_audio |-> kind = "audio", is_control |-> kind = "control",
     is_atom |-> kind = "atom", is_input |-> is_input, is_midi |-> is_midi,
     symbol |-> symbol, defvalue |-> defvalue,
     atom_buf_size |-> required_atom_size]

\* the registry after init_urids mapped the first k of its URIs
RECURSIVE init_urids_map(_)
init_urids_map(k) ==
    IF k = 0 THEN EmptyMap
    ELSE map_uri_map(init_urids_map(k - 1), AllUris[k])

\* the URIDs init_urids caches
urids ==
    LET m == init_urids_map(Len(AllUris))
    IN  [atom_eventTransfer |-> map_uri_id(m, "atom:eventTransfer"),
         atom_Sequence      |-> map_uri_id(m, "atom:Sequence"),
         atom_Chunk         |-> map_uri_id(m, "atom:Chunk"),
         atom_Int           |-> map_uri_id(m, "atom:Int"),
         midi_Event         |-> map_uri_id(m, "midi:MidiEvent")]

\* lv2_atom_pad_size: round up to a multiple of 8
lv2_atom_pad_size(size) == ((size + 7) \div 8) * 8

\* an LV2_Atom_Event; body.size is the length of the body
Event(type, body) == [frames |-> 0, type |-> type, body |-> body]

\* what the loop reads past the last event written: the memory of the
\* buffer, zeroed by init_ports
ZeroEvent == Event(0, << >>)

\* the events the plugin writes to an output sequence
PluginEvents ==
    { Event(urids.atom_Int, << >>),
      Event(urids.atom_Chunk, <<7>>),
      Event(urids.midi_Event, <<248>>) }

EventSeqs == UNION {[1..n -> PluginEvents] : n \in 1..MaxEvents}

\* offset of the k-th event from the start of the sequence body:
\* lv2_atom_sequence_begin, lv2_atom_sequence_next
RECURSIVE EventOffset(_, _)
EventOffset(events, k) ==
    IF k <= 1 THEN SizeofSeqBody
    ELSE EventOffset(events, k - 1) + SizeofEvent
         + lv2_atom_pad_size(Len(events[k - 1].body))

\* the bytes of the LV2_Atom at &ev->body: {size, type}, then the body
AtomBytes(ev) == Enc32(Len(ev.body)) \o Enc32(ev.type) \o ev.body

\* struct AtomState after its constructor
AtomState(sz) ==
    [ui_to_dsp |-> << >>, ui_to_dsp_type |-> 0, ui_to_dsp_pending |-> FALSE,
     dsp_to_ui |-> lv2_ringbuffer_create(sz)]

\* the atom buffer after init_ports: zeroed, type Sequence, size 0 for an
\* output port.  events: the events the plugin wrote to an output port's
\* sequence; mem: the bytes of the body of an input port's sequence, from
\* the LV2_Atom_Sequence_Body on, up to the last byte the host wrote (the
\* bytes after it are the zeroes of init_ports)
AtomBuf(p) ==
    [type |-> urids.atom_Sequence,
     size |-> IF p.is_input THEN SizeofSeqBody ELSE 0,
     events |-> << >>,
     mem |-> << >>]

\* the bytes of an LV2_Atom_Event: time.frames (64 bit), body.size,
\* body.type, then the body
EventBytes(ev) ==
    Enc32(ev.frames) \o Enc32(0) \o Enc32(Len(ev.body)) \o Enc32(ev.type) \o ev.body

\* memcpy(mem + off, bytes, Len(bytes))
MemWrite(mem, off, bytes) ==
    [i \in 1..Max(Len(mem), off + Len(bytes)) |->
        IF i > off /\ i <= off + Len(bytes) THEN bytes[i - off]
        ELSE IF i <= Len(mem) THEN mem[i]
        ELSE 0]

\* lv2_atom_sequence_append_event(seq, capacity, event): the event goes to
\* lv2_atom_sequence_end, that is atom.size bytes into the body
lv2_atom_sequence_append_event(a, capacity, ev) ==
    LET total_size == SizeofEvent + Len(ev.body)
    IN  IF capacity - a.size < total_size THEN a
        ELSE [a EXCEPT !.mem = MemWrite(@, lv2_atom_pad_size(a.size), EventBytes(ev)),
                       !.size = @ + lv2_atom_pad_size(total_size)]

\* the loop over the events of the JACK MIDI input buffer
RECURSIVE append_midi_events(_, _, _)
append_midi_events(a, capacity, midi_in) ==
    IF midi_in = << >> THEN a
    ELSE append_midi_events(
             lv2_atom_sequence_append_event(a, capacity,
                                            Event(urids.midi_Event, Head(midi_in))),
             capacity, Tail(midi_in))

\* n bytes of the buffer from offset off of the body
MemRead(mem, off, n) ==
    [i \in 1..n |-> IF off + i <= Len(mem) THEN mem[off + i] ELSE 0]

\* the LV2_Atom_Event the plugin reads at offset off of the body: the time
\* stamp as its two 32 bit halves, body.size, body.type, and the bytes of
\* the body that lie in the part of the buffer the host wrote
event_at(a, off) ==
    LET size == Dec32(MemRead(a.mem, off + 8, SizeofU32))
    IN  [off |-> off,
         frames |-> Dec32(MemRead(a.mem, off, SizeofU32)),
         frames_hi |-> Dec32(MemRead(a.mem, off + 4, SizeofU32)),
         size |-> size,
         type |-> Dec32(MemRead(a.mem, off + 12, SizeofU32)),
         body |-> MemRead(a.mem, off + SizeofEvent,
                          Min(size, Max(0, Len(a.mem) - off - SizeofEvent)))]

\* LV2_ATOM_SEQUENCE_FOREACH as the plugin's run reads an input sequence:
\* from lv2_atom_sequence_begin (the end of the LV2_Atom_Sequence_Body) by
\* lv2_atom_sequence_next until lv2_atom_sequence_is_end
RECURSIVE sequence_read(_, _)
sequence_read(a, off) ==
    IF ~(off < a.size) THEN << >>
    ELSE LET ev == event_at(a, off)
         IN  <<ev>> \o sequence_read(a, off + SizeofEvent + lv2_atom_pad_size(ev.size))

\* the events JACK delivers to a MIDI input port in one cycle
MidiInputs == { << >>, << <<144, 60, 100>> >> }

AtomPorts == {p \in DOMAIN ports : ports[p].is_atom}

OutAtomPorts == {p \in AtomPorts : ~ports[p].is_input}

MidiPorts == {p \in AtomPorts : ports[p].is_midi}

InAtomPorts == {p \in AtomPorts : ports[p].is_input}

\* no audio cycle yet
NoConsumed ==
    [midi |-> << >>, pending |-> FALSE, type |-> 0, buf |-> << >>, copied |-> << >>]

\* the frames of the latest audio cycle among those not yet handed to the UI
InFlight(q) == Cardinality({i \in DOMAIN q : q[i].cur})

MissingFrame == [bytes |-> <<"missing">>, cur |-> FALSE, port |-> 0]

OldestFrame(q) == IF q = << >> THEN MissingFrame ELSE Head(q)

NoCycle == [written |-> 0, seen |-> 0, nospace |-> FALSE, done |-> FALSE]

(***************************************************************************)
(* The audio callback process()                                            *)
(***************************************************************************)
\* process, the loop before run: what it leaves in the buffer of an atom
\* input port
process_input_atom(p, midi_in) ==
    LET capacity == ports[p].atom_buf_size
        \* handle midi input
        midi == IF ports[p].is_midi
                THEN append_midi_events(
                         [atom[p] EXCEPT !.type = urids.atom_Sequence,
                                         !.size = SizeofSeqBody],
                         capacity, midi_in)
                ELSE atom[p]
    IN  \* handle atom messages from GUI to dsp
        IF atom_state[p].ui_to_dsp_pending
        THEN lv2_atom_sequence_append_event(
                 [midi EXCEPT !.type = urids.atom_Sequence, !.size = 0],
                 capacity,
                 Event(atom_state[p].ui_to_dsp_type, atom_state[p].ui_to_dsp))
        ELSE midi

\* uint8_t evbuf[sizeof(LV2_Atom_Event) + required_atom_size]: the bytes of
\* the scratch event after its header
ScratchBody == required_atom_size

\* memcpy(LV2_ATOM_BODY(&aev->body), ev.buffer, ev.size) and
\* memcpy(LV2_ATOM_BODY(&ev->body), ui_to_dsp.data(), body_size): the number
\* of bytes the copy writes into evbuf after the event header
scratch_memcpy(body_size) == body_size

\* the copies into evbuf in one cycle for the atom input port p: one for
\* every event of the JACK MIDI buffer, then one for the pending UI message
scratch_copies(p, midi_in) ==
    (IF ports[p].is_midi
     THEN [k \in DOMAIN midi_in |-> scratch_memcpy(Len(midi_in[k]))]
     ELSE << >>)
    \o (IF atom_state[p].ui_to_dsp_pending
        THEN <<scratch_memcpy(Len(atom_state[p].ui_to_dsp))>>
        ELSE << >>)

\* process: the shutdown check, then the loop over the ports before run
\* if (shutdown.load()) return 0;
process_returns_early_bug(flag) == FALSE
process_returns_early(flag) == flag

process_enter(midi_in) ==
    /\ jack_active
    /\ a_pc = "idle"
    /\ ~process_returns_early(shutdown)
    /\ cycle' = Min(cycle + 1, CycleCap)
    /\ atom' = [p \in DOMAIN atom |->
                  IF ~ports[p].is_input
                  \* prepare atom output buffers for plugin write
                  THEN [atom[p] EXCEPT !.type = 0,
                                       !.size = ports[p].atom_buf_size - SizeofAtom]
                  \* handle atom input ports
                  ELSE process_input_atom(p, midi_in)]
    \* ui_to_dsp_pending.exchange(false)
    /\ atom_state' = [p \in DOMAIN atom_state |->
                        IF ports[p].is_input
                        THEN [atom_state[p] EXCEPT !.ui_to_dsp_pending = FALSE]
                        ELSE atom_state[p]]
    /\ pushed' = [p \in DOMAIN pushed |->
                    [i \in DOMAIN pushed[p] |-> [pushed[p][i] EXCEPT !.cur = FALSE]]]
    /\ cyc' = [p \in DOMAIN cyc |-> NoCycle]
    /\ ui_written' = [p \in DOMAIN ui_written |->
                        [ui_written[p] EXCEPT !.settled = ui_written[p].set]]
    /\ a_pc' = "run"
    /\ UNCHANGED <<a_data, a_port, a_ev>>
    /\ consumed' = [p \in DOMAIN consumed |->
                      [midi |-> IF ports[p].is_midi THEN midi_in ELSE << >>,
                       pending |-> atom_state[p].ui_to_dsp_pending,
                       type |-> atom_state[p].ui_to_dsp_type,
                       buf |-> atom_state[p].ui_to_dsp,
                       copied |-> scratch_copies(p, midi_in)]]
    /\ UNCHANGED <<ports, shutdown, preset_call, broadcast, flag_vars, control, jack_midi,
                   ui_vars, port_event, null_midi>>
    /\ UNCHANGED <<life_vars, urid_vars, ring_vars, worker_vars, log_vars>>

\* the plugin's run writes a sequence of events to an output atom port,
\* setting the type of the container or leaving it
plugin_run_write(p, type, events) ==
    /\ a_pc = "run"
    /\ p \in OutAtomPorts
    /\ atom[p].type = 0
    /\ atom[p].size = ports[p].atom_buf_size - SizeofAtom
    /\ EventOffset(events, Len(events) + 1) <= atom[p].size
    /\ atom' = [atom EXCEPT ![p] = [type |-> type,
                                    size |-> EventOffset(events, Len(events) + 1),
                                    events |-> events]]
    /\ cyc' = [cyc EXCEPT ![p].written = Len(events)]
    /\ UNCHANGED <<ports, shutdown, consumed, ctl_vars, flag_vars, control, atom_state, jack_midi,
                   ui_vars, pushed, port_event, null_midi>>
    /\ UNCHANGED <<life_vars, urid_vars, ring_vars, worker_vars, audio_vars, log_vars>>

\* lilv_instance_run returns
plugin_run_return ==
    /\ a_pc = "run"
    /\ a_pc' = IF iface THEN "deliver" ELSE "post"
    /\ a_port' = 1
    /\ a_ev' = 0
    /\ sched_ret' = NoSchedRet
    /\ UNCHANGED <<a_data, cycle>>
    /\ UNCHANGED <<req_queue, work_call, resp_queue, deliv_call, rt_alloc, resp_ret, ring_access>>
    /\ UNCHANGED <<life_vars, urid_vars, ring_vars, host_vars, worker_vars>>

\* one round of the loop of deliver_worker_responses
deliver_worker_responses ==
    /\ a_pc = "deliver"
    /\ IF lv2_ringbuffer_read_space(responses) < SizeofU32
       THEN /\ a_pc' = "post"
            /\ UNCHANGED <<responses, resp_queue, deliv_call, rt_alloc>>
       ELSE LET size == Dec32(lv2_ringbuffer_peek(responses, SizeofU32))
                rb1 == lv2_ringbuffer_read(responses, SizeofU32)
                buf == lv2_ringbuffer_peek(rb1, size)
                rb2 == lv2_ringbuffer_read(rb1, size)
            IN  IF deliver_frame_ready(responses, size)
                THEN /\ responses' = rb2
                     \* std::vector<uint8_t> buf(size)
                     /\ rt_alloc' = IF size > 0
                                    THEN rt_alloc \cup {"deliver_worker_responses"}
                                    ELSE rt_alloc
                     /\ deliv_call' = [n |-> deliv_call.n + 1, size |-> size,
                                        data |-> buf, cycle |-> cycle,
                                        resp |-> Oldest(resp_queue)]
                     /\ resp_queue' = Rest(resp_queue)
                     /\ UNCHANGED a_pc
                ELSE /\ a_pc' = "post"
                     /\ UNCHANGED <<responses, resp_queue, deliv_call, rt_alloc>>
    /\ UNCHANGED <<a_data, a_port, a_ev, cycle>>
    /\ UNCHANGED <<iface, running, requests, w_pc, w_data>>
    /\ ring_access' = IF lv2_ringbuffer_read_space(responses) < SizeofU32
                      THEN ring_access
                      ELSE ring_access \cup {Access("responses", "read", "audio")}
    /\ UNCHANGED <<req_queue, work_call, sched_ret, resp_ret>>
    /\ UNCHANGED <<life_vars, urid_vars, ring_vars, host_vars>>

\* the loop over the ports after run, up to LV2_ATOM_SEQUENCE_FOREACH
process_post_port ==
    /\ a_pc = "post"
    /\ a_port <= Len(ports)
    /\ a_ev = 0
    /\ LET p == ports[a_port]
       IN  \* send control output port values to the UI
           /\ ui_dirty' = IF p.is_control /\ ~p.is_input THEN TRUE ELSE ui_dirty
           \* reset atom input port buffer after dsp have read it
           /\ atom' = IF p.is_atom /\ p.is_input
                      THEN [atom EXCEPT ![a_port].size = 0]
                      ELSE atom
           \* jack_midi_clear_buffer
           /\ jack_midi' = IF p.is_atom /\ ~p.is_input /\ p.is_midi
                           THEN [jack_midi EXCEPT ![a_port] = << >>]
                           ELSE jack_midi
           /\ IF p.is_atom /\ ~p.is_input
              THEN a_ev' = 1 /\ UNCHANGED a_port
              ELSE a_port' = a_port + 1 /\ UNCHANGED a_ev
    /\ UNCHANGED <<a_pc, a_data, cycle>>
    /\ UNCHANGED <<ports, shutdown, consumed, ctl_vars, jack_active, preset_uri, run, ui_needs_initial_update,
                   ui_needs_control_update, control, atom_state, ui_vars, obs_vars>>
    /\ UNCHANGED <<life_vars, urid_vars, ring_vars, worker_vars, log_vars>>

\* lv2_atom_sequence_is_end: the k-th event lies at or past body + size
sequence_is_end(a, k) == ~(EventOffset(a.events, k) < a.size)

\* the event LV2_ATOM_SEQUENCE_FOREACH stands at
sequence_event(a, k) == IF k <= Len(a.events) THEN a.events[k] ELSE ZeroEvent

\* the loop over the events of an output sequence ends, or leaves by break
foreach_stops(a, k) ==
    \/ sequence_is_end(a, k)
    \/ Len(sequence_event(a, k).body) = 0
    \/ a.type = 0

\* the bytes of the frames of the events from the k-th on
RECURSIVE FrameBytes(_, _)
FrameBytes(events, k) ==
    IF k > Len(events) THEN 0
    ELSE SizeofAtom + Len(events[k].body) + FrameBytes(events, k + 1)

\* if (lv2_ringbuffer_write_space(p.atom_state->dsp_to_ui) >= total)
event_fits_bug(rb, total) == TRUE
event_fits(rb, total) == lv2_ringbuffer_write_space(rb) >= total

\* one round of LV2_ATOM_SEQUENCE_FOREACH: an event goes to the DSP->UI
\* ring when it fits, and to the JACK MIDI output when it is MIDI
process_post_event ==
    /\ a_pc = "post"
    /\ a_port <= Len(ports)
    /\ a_ev > 0
    /\ ~foreach_stops(atom[a_port], a_ev)
    /\ LET p == ports[a_port]
           ev == sequence_event(atom[a_port], a_ev)
           rb == atom_state[a_port].dsp_to_ui
           total == SizeofAtom + Len(ev.body)
       IN  /\ IF event_fits(rb, total)
              THEN /\ atom_state' = [atom_state EXCEPT ![a_port].dsp_to_ui =
                                        lv2_ringbuffer_write(rb, AtomBytes(ev))]
                   /\ pushed' = [pushed EXCEPT ![a_port] =
                                    Append(@, [bytes |-> AtomBytes(ev), cur |-> TRUE,
                                               port |-> p.index])]
                   /\ UNCHANGED cyc
              ELSE /\ cyc' = [cyc EXCEPT ![a_port].nospace = TRUE]
                   /\ UNCHANGED <<atom_state, pushed>>
           \* forward midi output to jack
           /\ IF ev.type = urids.midi_Event
              THEN IF p.is_midi
                   THEN /\ jack_midi' = [jack_midi EXCEPT ![a_port] =
                                            Append(@, [time |-> ev.frames,
                                                       buffer |-> ev.body])]
                        /\ UNCHANGED null_midi
                   ELSE \* midi_buf is nullptr
                        /\ null_midi' = TRUE
                        /\ UNCHANGED jack_midi
              ELSE UNCHANGED <<jack_midi, null_midi>>
    /\ a_ev' = a_ev + 1
    /\ UNCHANGED <<a_pc, a_data, a_port, cycle>>
    /\ UNCHANGED <<ports, shutdown, consumed, ctl_vars, flag_vars, control, atom, ui_vars, port_event>>
    /\ UNCHANGED <<life_vars, urid_vars, ring_vars, worker_vars, log_vars>>

\* the loop over the events is over: the header is reset, the next port
process_post_reset ==
    /\ a_pc = "post"
    /\ a_port <= Len(ports)
    /\ a_ev > 0
    /\ foreach_stops(atom[a_port], a_ev)
    /\ atom' = [atom EXCEPT ![a_port].type = 0, ![a_port].size = required_atom_size]
    /\ cyc' = [cyc EXCEPT ![a_port].done = TRUE,
                          ![a_port].nospace =
                              \/ @
                              \/ FrameBytes(atom[a_port].events, a_ev) >
                                 lv2_ringbuffer_write_space(atom_state[a_port].dsp_to_ui)]
    /\ a_port' = a_port + 1
    /\ a_ev' = 0
    /\ UNCHANGED <<a_pc, a_data, cycle>>
    /\ UNCHANGED <<ports, shutdown, consumed, ctl_vars, flag_vars, control, atom_state, jack_midi,
                   ui_vars, pushed, port_event, null_midi>>
    /\ UNCHANGED <<life_vars, urid_vars, ring_vars, worker_vars, log_vars>>

\* return 0
process_return ==
    /\ a_pc = "post"
    /\ a_port > Len(ports)
    /\ a_pc' = "idle"
    /\ UNCHANGED <<a_data, a_port, a_ev, cycle>>
    /\ UNCHANGED <<life_vars, urid_vars, ring_vars, host_vars, worker_vars, log_vars>>

(***************************************************************************)
(* The control cells: presets, the plugin, the UI's write function         *)
(***************************************************************************)
ControlPorts == {p \in DOMAIN ports : ports[p].is_control}

ControlInputs == {p \in ControlPorts : ports[p].is_input}

ControlOutputs == {p \in ControlPorts : ~ports[p].is_input}

NotWritten == [set |-> FALSE, value |-> 0, settled |-> FALSE]

NoPresetCall == [kind |-> "none", preset |-> << >>, before |-> << >>]

\* a port value of a preset: the symbol of the port and a float
PortValue(symbol, value) == [symbol |-> symbol, value |-> value, size |-> SizeofFloat]

\* the presets handed to apply_preset
Presets ==
    { << PortValue("gain", 3) >>,
      << PortValue("other", 4), PortValue("gain", 3) >>,
      << PortValue("other", 4) >> }

\* where a preset URI leads: lilv_new_uri fails; the world holds the state;
\* the URI is a file URI and the file loads; it is no file URI; the file
\* fails to load
PresetKinds == {"invalid_uri", "world", "file", "not_found", "load_failed"}

\* the returns of apply_preset before lilv_state_restore
FailedKinds_bug == {"invalid_uri", "not_found"}
FailedKinds == {"invalid_uri", "not_found", "load_failed"}

\* set_port_value: the first control port with the symbol takes the value
\* when it has the size of a float
set_port_value(c, pv) ==
    LET match == {p \in ControlPorts : ports[p].symbol = pv.symbol}
    IN  IF match = {} THEN c
        ELSE LET first == CHOOSE p \in match : \A q \in match : p <= q
             IN  IF pv.size = SizeofFloat THEN [c EXCEPT ![first] = pv.value]
                 ELSE c

\* lilv_state_restore(state, ...): set_port_value for every port value of
\* the state, nothing for a null state
RECURSIVE lilv_state_restore(_, _)
lilv_state_restore(state, c) ==
    IF state.null \/ state.values = << >> THEN c
    ELSE lilv_state_restore([state EXCEPT !.values = Tail(@)],
                            set_port_value(c, Head(state.values)))

NullState == [null |-> TRUE, values |-> << >>]

\* the LilvState* state that apply_preset hands to lilv_state_restore: the
\* one lilv_state_new_from_world returned; the state loaded from a file is
\* held by a second variable state, declared in the inner block
restored_state(kind, preset) ==
    IF kind = "world" THEN [null |-> FALSE, values |-> preset]
    ELSE NullState

\* the request the plugin's restore schedules
RestoreWork == <<65>>

\* apply_preset hands the worker's schedule feature to lilv_state_restore:
\* the plugin's restore calls schedule_work on the main thread, and
\* host_schedule_work writes the size
restore_schedule_work ==
    /\ ui_pc = "main"
    /\ iface
    /\ NumRequests < MaxReq
    /\ IF worker_has_space(requests, Len(RestoreWork))
       THEN /\ requests' = lv2_ringbuffer_write(requests, Enc32(Len(RestoreWork)))
            /\ ring_access' = ring_access \cup {Access("requests", "write", "main")}
            /\ ui_pc' = "restore_sched"
       ELSE UNCHANGED <<requests, ring_access, ui_pc>>
    /\ UNCHANGED <<iface, running, responses, w_pc, w_data>>
    /\ UNCHANGED <<req_queue, work_call, resp_queue, deliv_call, rt_alloc, resp_ret, sched_ret>>
    /\ UNCHANGED <<ports, shutdown, consumed, flag_vars, control, atom_vars, ui_port,
                   obs_vars, ctl_vars>>
    /\ UNCHANGED <<life_vars, urid_vars, ring_vars, audio_vars>>

\* host_schedule_work on the main thread: the write of the payload
restore_schedule_work_data ==
    /\ ui_pc = "restore_sched"
    /\ requests' = lv2_ringbuffer_write(requests, RestoreWork)
    /\ req_queue' = Append(req_queue, [data |-> RestoreWork, cycle |-> cycle])
    /\ ui_pc' = "restore"
    /\ UNCHANGED <<iface, running, responses, w_pc, w_data>>
    /\ UNCHANGED <<work_call, resp_queue, deliv_call, rt_alloc, resp_ret, sched_ret, ring_access>>
    /\ UNCHANGED <<ports, shutdown, consumed, flag_vars, control, atom_vars, ui_port,
                   obs_vars, ctl_vars>>
    /\ UNCHANGED <<life_vars, urid_vars, ring_vars, audio_vars>>

\* apply_preset(presetUri, presetLabel), called by main before initUi
apply_preset(kind, preset) ==
    /\ \/ ui_pc = "main"
       \/ ui_pc = "restore" /\ kind \notin FailedKinds
    /\ preset_uri' = "preset"
    /\ preset_call' = [kind |-> kind, preset |-> preset, before |-> control]
    /\ UNCHANGED broadcast
    /\ IF kind \in FailedKinds
       THEN /\ ui_needs_initial_update' = TRUE
            /\ UNCHANGED <<control, ui_needs_control_update, ui_written>>
       ELSE /\ control' = lilv_state_restore(restored_state(kind, preset), control)
            /\ ui_written' = [p \in DOMAIN ui_written |->
                                IF control'[p] # control[p] THEN NotWritten
                                ELSE ui_written[p]]
            /\ ui_needs_control_update' = TRUE
            /\ ui_needs_initial_update' = FALSE
    /\ ui_pc' = "init_ui"
    /\ UNCHANGED <<ports, shutdown, consumed, run, ui_dirty, jack_active, atom_vars, ui_port,
                   obs_vars>>
    /\ UNCHANGED <<life_vars, urid_vars, ring_vars, worker_vars, audio_vars, log_vars>>

\* main: no preset was selected
main_no_preset ==
    /\ ui_pc = "main"
    /\ ui_pc' = "init_ui"
    /\ UNCHANGED <<ports, shutdown, consumed, ctl_vars, flag_vars, control, atom_vars, ui_port,
                   obs_vars>>
    /\ UNCHANGED <<life_vars, urid_vars, ring_vars, worker_vars, audio_vars, log_vars>>

\* initUi: init_ui, then jack_activate
initUi_host ==
    /\ ui_pc = "init_ui"
    /\ ui_needs_initial_update' = IF preset_uri = "" THEN TRUE
                                  ELSE ui_needs_initial_update
    /\ jack_active' = TRUE
    /\ preset_call' = IF preset_call.kind \in FailedKinds
                      THEN [NoPresetCall EXCEPT !.kind = "failed"]
                      ELSE NoPresetCall
    /\ ui_pc' = "start"
    /\ UNCHANGED <<ports, shutdown, consumed, ui_written, broadcast, run, ui_dirty, ui_needs_control_update,
                   preset_uri, control, atom_vars, ui_port, obs_vars>>
    /\ UNCHANGED <<urid_vars, ring_vars, worker_vars, audio_vars, log_vars>>

initUi == initUi_host /\ UNCHANGED life_vars

\* the plugin's run writes a control output port
plugin_run_control(p, value) ==
    /\ a_pc = "run"
    /\ p \in ControlOutputs
    /\ control[p] # value
    /\ control' = [control EXCEPT ![p] = value]
    /\ ui_written' = [ui_written EXCEPT ![p] = NotWritten]
    /\ UNCHANGED <<ports, shutdown, consumed, flag_vars, atom_vars, ui_vars, obs_vars,
                   preset_call, broadcast>>
    /\ UNCHANGED <<life_vars, urid_vars, ring_vars, worker_vars, audio_vars, log_vars>>

\* the float at buf: *(const float*)buf, as its bit pattern
float_at(buf) == Dec32(SubSeq(buf, 1, SizeofFloat))

\* ui_write: the cell a control write stores to
ui_write_cell_bug(port) == CHOOSE p \in ControlPorts : \A q \in ControlPorts : p <= q
ui_write_cell(port) == port + 1

\* ui_write(c, port, size, type, buf), called by the plugin's UI from its
\* idle function
ui_write(port, size, type, buf) ==
    /\ ui_pc = "drain"
    /\ ui_port > Len(ports)
    /\ port + 1 \in DOMAIN ports
    /\ size = Len(buf)
    /\ LET p == ports[port + 1]
       IN  IF p.is_control /\ size = SizeofFloat
           THEN /\ control' = [control EXCEPT ![ui_write_cell(port)] = float_at(buf)]
                /\ ui_written' = [ui_written EXCEPT ![port + 1] =
                                     [set |-> TRUE, value |-> float_at(buf),
                                      settled |-> FALSE]]
                /\ UNCHANGED atom_state
           ELSE IF p.is_atom
           THEN /\ atom_state' = [atom_state EXCEPT
                                     ![port + 1].ui_to_dsp = buf,
                                     ![port + 1].ui_to_dsp_type = type,
                                     ![port + 1].ui_to_dsp_pending = TRUE]
                /\ UNCHANGED <<control, ui_written>>
           ELSE UNCHANGED <<control, ui_written, atom_state>>
    /\ UNCHANGED <<ports, shutdown, consumed, flag_vars, atom, jack_midi, ui_vars, obs_vars,
                   preset_call, broadcast>>
    /\ UNCHANGED <<life_vars, urid_vars, ring_vars, worker_vars, audio_vars, log_vars>>

\* the buffers the UI hands to ui_write
UiBufs == { <<1, 0, 0, 0>>, <<2, 0, 0, 0>>, <<1, 0, 0, 0, 2, 0, 0, 0>> }

(***************************************************************************)
(* The UI loop run_ui_loop()                                               *)
(***************************************************************************)
NoPortEvent ==
    [called |-> FALSE, src |-> "none", port |-> 0, size |-> 0, format |-> 0,
     buf |-> << >>, frame |-> MissingFrame]

\* run.store(true) before the loop
run_ui_loop_start ==
    /\ ui_pc = "start"
    /\ run' = TRUE
    /\ ui_pc' = "sleep"
    /\ UNCHANGED <<ports, shutdown, consumed, ctl_vars, jack_active, preset_uri, ui_dirty, ui_needs_initial_update,
                   ui_needs_control_update, control, atom_vars, ui_port, obs_vars>>
    /\ UNCHANGED <<life_vars, urid_vars, ring_vars, worker_vars, audio_vars, log_vars>>

\* while (run.load()): the sleep, and the X events, none of which closes
\* the window
run_ui_loop_events ==
    /\ ui_pc = "sleep"
    /\ run
    /\ ui_pc' = "dirty"
    /\ UNCHANGED <<ports, shutdown, consumed, ctl_vars, flag_vars, control, atom_vars, ui_port, obs_vars>>
    /\ UNCHANGED <<life_vars, urid_vars, ring_vars, worker_vars, audio_vars, log_vars>>

\* the value exchange(false) leaves in a flag
exchange_stored_bug(flag) == flag
exchange_stored(flag) == FALSE

\* if (ui_dirty.exchange(false)) send_control_outputs()
run_ui_loop_dirty ==
    /\ ui_pc = "dirty"
    \* send_control_outputs hands the cells of the control outputs to the UI
    /\ ui_dirty' = exchange_stored(ui_dirty)
    /\ broadcast' = IF ui_dirty THEN "send_control_outputs" ELSE "none"
    /\ ui_pc' = "initial"
    /\ UNCHANGED <<ports, shutdown, consumed, ui_written, preset_call, jack_active, preset_uri, run, ui_needs_initial_update,
                   ui_needs_control_update, control, atom_vars, ui_port, obs_vars>>
    /\ UNCHANGED <<life_vars, urid_vars, ring_vars, worker_vars, audio_vars, log_vars>>

\* send_initial_ui_values: p.control = p.defvalue, and port_event
send_initial_ui_values(c) ==
    [p \in DOMAIN c |-> IF p \in ControlInputs THEN ports[p].defvalue ELSE c[p]]

\* if (ui_needs_initial_update.exchange(false)) send_initial_ui_values()
run_ui_loop_initial ==
    /\ ui_pc = "initial"
    /\ ui_needs_initial_update' = exchange_stored(ui_needs_initial_update)
    /\ IF ui_needs_initial_update
       THEN /\ control' = send_initial_ui_values(control)
            /\ ui_written' = [p \in DOMAIN ui_written |->
                                IF p \in ControlInputs THEN NotWritten
                                ELSE ui_written[p]]
       ELSE UNCHANGED <<control, ui_written>>
    /\ broadcast' = IF ui_needs_initial_update THEN "send_initial_ui_values"
                    ELSE "none"
    /\ preset_call' = NoPresetCall
    /\ ui_pc' = "control"
    /\ UNCHANGED <<ports, shutdown, consumed, jack_active, preset_uri, run, ui_dirty, ui_needs_control_update,
                   atom_vars, ui_port, obs_vars>>
    /\ UNCHANGED <<life_vars, urid_vars, ring_vars, worker_vars, audio_vars, log_vars>>

\* if (ui_needs_control_update.exchange(false)) send_control_values()
run_ui_loop_control ==
    /\ ui_pc = "control"
    \* send_control_values hands the cells of the control inputs to the UI
    /\ ui_needs_control_update' = exchange_stored(ui_needs_control_update)
    /\ broadcast' = IF ui_needs_control_update THEN "send_control_values"
                    ELSE "none"
    /\ ui_pc' = "drain"
    /\ ui_port' = 1
    /\ UNCHANGED <<ports, shutdown, consumed, ui_written, preset_call, jack_active, preset_uri, run, ui_dirty, ui_needs_initial_update,
                   control, atom_vars, obs_vars>>
    /\ UNCHANGED <<life_vars, urid_vars, ring_vars, worker_vars, audio_vars, log_vars>>

\* const uint32_t total = sizeof(LV2_Atom) + hdr.size
ui_frame_total_bug(hdr_size) == hdr_size
ui_frame_total(hdr_size) == SizeofAtom + hdr_size

\* the loop over the ports: one round of the while loop that drains the
\* DSP->UI ring of an output atom port, or the step to the next port
run_ui_loop_drain ==
    /\ ui_pc = "drain"
    /\ ui_port <= Len(ports)
    /\ LET p == ports[ui_port]
       IN  IF ~p.is_atom \/ p.is_input
           THEN /\ ui_port' = ui_port + 1
                /\ UNCHANGED <<atom_state, pushed, port_event, cyc>>
           ELSE LET rb == atom_state[ui_port].dsp_to_ui
                    hdr == lv2_ringbuffer_peek(rb, SizeofAtom)
                    total == ui_frame_total(Dec32(SubSeq(hdr, 1, SizeofU32)))
                    frame == OldestFrame(pushed[ui_port])
                IN  IF lv2_ringbuffer_read_space(rb) >= SizeofAtom
                       /\ ~(lv2_ringbuffer_read_space(rb) < total)
                    THEN /\ atom_state' = [atom_state EXCEPT ![ui_port].dsp_to_ui =
                                              lv2_ringbuffer_read(rb, total)]
                         /\ port_event' =
                              [called |-> TRUE, src |-> "dsp_to_ui",
                               port |-> p.index, size |-> total,
                               format |-> urids.atom_eventTransfer,
                               buf |-> lv2_ringbuffer_peek(rb, total),
                               frame |-> frame]
                         /\ pushed' = [pushed EXCEPT ![ui_port] = Rest(@)]
                         /\ cyc' = IF frame.cur
                                   THEN [cyc EXCEPT ![ui_port].seen = @ + 1]
                                   ELSE cyc
                         /\ UNCHANGED ui_port
                    ELSE /\ ui_port' = ui_port + 1
                         /\ UNCHANGED <<atom_state, pushed, port_event, cyc>>
    /\ UNCHANGED <<ports, shutdown, consumed, ctl_vars, flag_vars, control, atom, jack_midi, ui_pc,
                   null_midi>>
    /\ UNCHANGED <<life_vars, urid_vars, ring_vars, worker_vars, audio_vars, log_vars>>

\* if (idle) idle->idle(ui_handle), and round the loop
run_ui_loop_idle ==
    /\ ui_pc = "drain"
    /\ ui_port > Len(ports)
    /\ broadcast' = "none"
    /\ ui_pc' = "sleep"
    /\ UNCHANGED <<ports, shutdown, consumed, ui_written, preset_call, flag_vars, control, atom_vars, ui_port, obs_vars>>
    /\ UNCHANGED <<life_vars, urid_vars, ring_vars, worker_vars, audio_vars, log_vars>>

UiThread ==
    \/ run_ui_loop_start
    \/ run_ui_loop_events
    \/ run_ui_loop_dirty
    \/ run_ui_loop_initial
    \/ run_ui_loop_control
    \/ run_ui_loop_drain
    \/ run_ui_loop_idle

\* the audio thread of a plugin without a worker interface
AtomAudioThread ==
    \/ \E midi_in \in MidiInputs : process_enter(midi_in)
    \/ \E p \in OutAtomPorts, type \in {0, urids.atom_Sequence}, events \in EventSeqs :
          plugin_run_write(p, type, events)
    \/ plugin_run_return
    \/ process_post_port
    \/ process_post_event
    \/ process_post_reset
    \/ process_return

AudioThread ==
    \/ \E midi_in \in MidiInputs : process_enter(midi_in)
    \/ \E data \in Payloads : host_schedule_work(data)
    \/ host_schedule_work_data
    \/ plugin_run_return
    \/ deliver_worker_responses
    \/ process_post_port
    \/ process_return

WorkerThread ==
    \/ worker_thread_sleep
    \/ worker_thread_func
    \/ \E data \in Payloads : host_respond(data)
    \/ host_respond_data
    \/ plugin_work_return

(***************************************************************************)
(* Life cycle: init, initUi, the window close, closeHost, the destructor   *)
(***************************************************************************)
\* a resource the host acquires: its kind, and the port it belongs to
Res(kind, index) == <<kind, index>>

\* the resources acquired and not released
Live == acquired \ released

\* the features init_instance hands to checkFeatures and to instantiate
HostFeatures ==
    {"urid#map", "urid#unmap", "options#options", "buf-size#boundedBlockLength",
     "worker#schedule"}

\* the required features a plugin may declare
RequiredSets ==
    { {"urid#map", "worker#schedule"}, {"urid#map", "state#loadDefaultState"} }

\* no plugin of that URI in the world
NoPlugin == [found |-> FALSE, required |-> {}, worker |-> FALSE]

\* the plugins the world may hold for the URI
Plugins == [found : {TRUE}, required : RequiredSets, worker : BOOLEAN]

\* the request the plugin schedules, and the response of its work
LifePayload == <<65>>

\* the ports of the plugin
LifePorts ==
    << Port(0, "audio", TRUE, FALSE, "in", 0),
       Port(1, "atom", TRUE, TRUE, "midi_in", 0) >>

feature_is_supported(uri, feat) == \E f \in feat : uri = f

checkFeatures_bug(required, feat) == TRUE
checkFeatures(required, feat) ==
    \A uri \in required : feature_is_supported(uri, feat)

NoRegistration == [type |-> "none", flags |-> "none"]

\* the type and the flags init_ports hands to jack_port_register
jack_port_register(port) ==
    IF port.is_audio
    THEN [type |-> "JACK_DEFAULT_AUDIO_TYPE",
          flags |-> IF port.is_input THEN "JackPortIsInput" ELSE "JackPortIsOutput"]
    ELSE IF port.is_atom /\ port.is_input /\ port.is_midi
    THEN [type |-> "JACK_DEFAULT_MIDI_TYPE", flags |-> "JackPortIsInput"]
    ELSE IF port.is_atom /\ ~port.is_input /\ port.is_midi
    THEN [type |-> "JACK_DEFAULT_MIDI_TYPE", flags |-> "JackPortIsOutput"]
    ELSE NoRegistration

\* the ports init_ports registers with JACK
RegisteredPorts(ps) ==
    {p \in DOMAIN ps : jack_port_register(ps[p]) # NoRegistration}

\* the ports closeHost unregisters
UnregisteredPorts_bug(ps) ==
    {p \in DOMAIN ps : ps[p].is_audio \/ ps[p].is_atom}
UnregisteredPorts(ps) ==
    {p \in DOMAIN ps : ps[p].is_audio \/ (ps[p].is_atom /\ ps[p].is_midi)}

\* the ports init_instance connects
ConnectedPorts(ps) ==
    {p \in DOMAIN ps : ~ps[p].is_audio /\ (ps[p].is_control \/ ps[p].is_atom)}

UiNull ==
    [dl |-> nullptr, desc |-> FALSE, handle |-> nullptr, display |-> nullptr,
     window |-> 0]

\* the window of init_ui
XWindow == 1

UiLive ==
    [dl |-> "live", desc |-> TRUE, handle |-> "live", display |-> "live",
     window |-> XWindow]

\* a stage of init or initUi returned
Stage(name, ok) == [stage |-> name, ok |-> ok]

\* init_lilv: the world, the plugin, the port classes
init_lilv(pl) ==
    /\ ui_pc = "init_lilv"
    /\ world' = "live"
    /\ plugin' = pl
    \* if (!plugin) return false: before the nodes are assigned
    /\ nodes' = IF pl.found THEN "live" ELSE nodes
    /\ acquired' = acquired \cup {Res("world", 0)}
                     \cup (IF pl.found THEN {Res("nodes", 0)} ELSE {})
    /\ init_log' = Append(init_log, Stage("init_lilv", pl.found))
    /\ ui_pc' = IF pl.found THEN "init_jack" ELSE "exit"
    /\ UNCHANGED <<jack, instance, activated, connected, rings, ui, closer, close_n,
                   close_ops, released, bad>>
    /\ UNCHANGED host_but_pc
    /\ UNCHANGED <<urid_vars, ring_vars, worker_vars, audio_vars, log_vars>>

\* init_jack: open the client
init_jack(ok) ==
    /\ ui_pc = "init_jack"
    /\ jack' = IF ok THEN "live" ELSE nullptr
    /\ acquired' = IF ok THEN acquired \cup {Res("jack", 0)} ELSE acquired
    /\ init_log' = Append(init_log, Stage("init_jack", ok))
    /\ ui_pc' = IF ok THEN "init_ports" ELSE "exit"
    /\ UNCHANGED <<world, nodes, plugin, instance, activated, connected, rings, ui,
                   closer, close_n, close_ops, released, bad>>
    /\ UNCHANGED host_but_pc
    /\ UNCHANGED <<urid_vars, ring_vars, worker_vars, audio_vars, log_vars>>

\* init_ports: the descriptors, the JACK registrations, the atom buffers
init_ports(ps) ==
    /\ ui_pc = "init_ports"
    /\ LET atoms == {p \in DOMAIN ps : ps[p].is_atom}
           controls == {p \in DOMAIN ps : ps[p].is_control}
       IN  /\ ports' = ps
           /\ control' = [p \in controls |-> 0]
           /\ atom' = [p \in atoms |-> AtomBuf(ps[p])]
           /\ atom_state' = [p \in atoms |-> AtomState(AtomRingSize)]
           /\ jack_midi' = [p \in {q \in atoms : ps[q].is_midi} |-> << >>]
           /\ pushed' = [p \in {q \in atoms : ~ps[q].is_input} |-> << >>]
           /\ cyc' = [p \in {q \in atoms : ~ps[q].is_input} |-> NoCycle]
           /\ consumed' = [p \in {q \in atoms : ps[q].is_input} |-> NoConsumed]
           /\ ui_written' = [p \in controls |-> NotWritten]
           /\ acquired' = acquired
                            \cup {Res("jack_port", p) : p \in RegisteredPorts(ps)}
                            \cup {Res("atom", p) : p \in atoms}
    /\ init_log' = Append(init_log, Stage("init_ports", TRUE))
    /\ ui_pc' = "init_instance"
    /\ UNCHANGED <<world, nodes, plugin, jack, instance, activated, connected, rings,
                   ui, closer, close_n, close_ops, released, bad>>
    /\ UNCHANGED <<shutdown, flag_vars, ui_port, port_event, null_midi, preset_call,
                   broadcast>>
    /\ UNCHANGED <<urid_vars, ring_vars, worker_vars, audio_vars, log_vars>>

\* init_instance: checkFeatures, instantiate, the worker, connect, activate
init_instance(instantiated) ==
    /\ ui_pc = "init_instance"
    /\ LET ok == checkFeatures(plugin.required, HostFeatures) /\ instantiated
           worker == ok /\ plugin.worker
       IN  /\ instance' = IF ok THEN "live" ELSE instance
           /\ iface' = IF worker THEN TRUE ELSE iface
           /\ rings' = IF worker THEN "live" ELSE rings
           /\ requests' = IF worker THEN lv2_ringbuffer_create(WorkerRingSize)
                          ELSE requests
           /\ responses' = IF worker THEN lv2_ringbuffer_create(WorkerRingSize)
                           ELSE responses
           /\ running' = IF worker THEN TRUE ELSE running
           /\ w_pc' = IF worker THEN "loop" ELSE w_pc
           /\ connected' = IF ok THEN ConnectedPorts(ports) ELSE connected
           /\ activated' = IF ok THEN TRUE ELSE activated
           /\ acquired' = acquired
                            \cup (IF ok THEN {Res("instance", 0)} ELSE {})
                            \cup (IF worker
                                  THEN {Res("requests", 0), Res("responses", 0),
                                        Res("worker_thread", 0)}
                                  ELSE {})
           /\ init_log' = Append(init_log, Stage("init_instance", ok))
           /\ ui_pc' = IF ok THEN "main" ELSE "exit"
    /\ UNCHANGED <<world, nodes, plugin, jack, ui, closer, close_n, close_ops, released,
                   bad>>
    /\ UNCHANGED w_data
    /\ UNCHANGED <<urid_vars, ring_vars, host_but_pc, audio_vars, log_vars>>

\* what init_ui leaves behind when it returns where
InitUiOutcomes ==
    {"no_x11_ui", "no_descriptor", "no_handle", "jack_activate_failed"}

init_ui(outcome) ==
    CASE outcome = "no_x11_ui" -> ui
      [] outcome = "no_descriptor" -> [ui EXCEPT !.dl = "live"]
      [] outcome = "no_handle" -> [UiLive EXCEPT !.handle = nullptr]
      [] OTHER -> UiLive

\* the resources of a UI
UiResources(u) ==
    (IF u.dl # nullptr THEN {Res("ui_dl", 0)} ELSE {})
        \cup (IF u.handle # nullptr THEN {Res("ui_handle", 0)} ELSE {})
        \cup (IF u.display # nullptr THEN {Res("x_display", 0)} ELSE {})
        \cup (IF u.window # 0 THEN {Res("x_window", 0)} ELSE {})

\* initUi returns true: the UI is up and the JACK client is active
initUi_ok ==
    /\ initUi_host
    /\ ui' = init_ui("ok")
    /\ acquired' = acquired \cup UiResources(ui')
    /\ init_log' = Append(init_log, Stage("initUi", TRUE))
    /\ UNCHANGED <<world, nodes, plugin, jack, instance, activated, connected, rings,
                   closer, close_n, close_ops, released, bad>>

\* initUi returns false, and main returns
initUi_fail(outcome) ==
    /\ ui_pc = "init_ui"
    /\ ui' = init_ui(outcome)
    \* if (preset_uri.empty()) ui_needs_initial_update.store(true)
    /\ ui_needs_initial_update' =
         IF outcome \in {"no_handle", "jack_activate_failed"} /\ preset_uri = ""
         THEN TRUE ELSE ui_needs_initial_update
    /\ acquired' = acquired \cup UiResources(ui')
    /\ init_log' = Append(init_log, Stage("initUi", FALSE))
    /\ ui_pc' = "exit"
    /\ UNCHANGED <<world, nodes, plugin, jack, instance, activated, connected, rings,
                   closer, close_n, close_ops, released, bad>>
    /\ UNCHANGED <<ports, shutdown, consumed, run, ui_dirty, ui_needs_control_update,
                   jack_active, preset_uri, control, atom_vars, ui_port, obs_vars,
                   ctl_vars>>
    /\ UNCHANGED <<urid_vars, ring_vars, worker_vars, audio_vars, log_vars>>

\* the value run_ui_loop stores to shutdown on WM_DELETE_WINDOW
wm_delete_shutdown_bug == FALSE
wm_delete_shutdown == TRUE

\* run_ui_loop: XNextEvent hands over the WM_DELETE_WINDOW client message:
\* shutdown.store(true)
run_ui_loop_delete ==
    /\ ui_pc = "sleep"
    /\ run
    /\ shutdown' = wm_delete_shutdown
    /\ ui_pc' = "delete"
    /\ UNCHANGED <<ports, consumed, flag_vars, control, atom_vars, ui_port, obs_vars,
                   ctl_vars>>
    /\ UNCHANGED <<life_vars, urid_vars, ring_vars, worker_vars, audio_vars, log_vars>>

\* run.store(false), and the call of closeHost
run_ui_loop_close ==
    /\ ui_pc = "delete"
    /\ run' = FALSE
    /\ closer' = "run_ui_loop"
    /\ close_ops' = << >>
    /\ ui_pc' = "closeHost"
    /\ UNCHANGED <<world, nodes, plugin, jack, instance, activated, connected, rings,
                   ui, close_n, acquired, released, bad, init_log>>
    /\ UNCHANGED <<ports, shutdown, consumed, ui_dirty, ui_needs_initial_update,
                   ui_needs_control_update, jack_active, preset_uri, control,
                   atom_vars, ui_port, obs_vars, ctl_vars>>
    /\ UNCHANGED <<urid_vars, ring_vars, worker_vars, audio_vars, log_vars>>

\* main returns and the destructor calls closeHost
destructor ==
    /\ ui_pc = "exit"
    /\ closer' = "destructor"
    /\ close_ops' = << >>
    /\ ui_pc' = "closeHost"
    /\ UNCHANGED <<world, nodes, plugin, jack, instance, activated, connected, rings,
                   ui, close_n, acquired, released, bad, init_log>>
    /\ UNCHANGED host_but_pc
    /\ UNCHANGED <<urid_vars, ring_vars, worker_vars, audio_vars, log_vars>>

\* the pointer closeHost leaves in instance after lilv_instance_free
instance_after_free_bug == "freed"
instance_after_free == nullptr

\* closeHost: deactivate the instance; stop_worker: running.exchange(false)
closeHost_enter ==
    /\ ui_pc = "closeHost"
    /\ activated' = IF instance # nullptr THEN FALSE ELSE activated
    /\ close_ops' = close_ops \o (IF instance # nullptr
                                    THEN <<"lilv_instance_deactivate">> ELSE << >>)
    /\ bad' = bad \cup (IF instance # nullptr THEN {Res("instance", 0)} \ Live ELSE {})
    /\ running' = FALSE
    /\ ui_pc' = IF running THEN "stop_worker" ELSE "destroy_ui"
    /\ UNCHANGED <<world, nodes, plugin, jack, instance, connected, rings, ui, closer,
                   close_n, acquired, released, init_log>>
    /\ UNCHANGED <<iface, requests, responses, w_pc, w_data>>
    /\ UNCHANGED host_but_pc
    /\ UNCHANGED <<urid_vars, ring_vars, audio_vars, log_vars>>

\* stop_worker after the exchange: join the thread, free the rings
\* a thread never started is not joinable; join returns when the thread
\* function has returned
thread_join_returns_bug(pc) == TRUE
thread_join_returns(pc) == pc \in {"none", "exited"}

stop_worker ==
    /\ ui_pc = "stop_worker"
    /\ thread_join_returns(w_pc)
    /\ LET joined == IF w_pc = "exited" THEN {Res("worker_thread", 0)} ELSE {}
           freed == IF rings # nullptr
                    THEN {Res("requests", 0), Res("responses", 0)} ELSE {}
       IN  /\ released' = released \cup joined \cup freed
           /\ bad' = bad \cup ((joined \cup freed) \ Live)
           /\ close_ops' = close_ops
                             \o (IF joined # {} THEN <<"join">> ELSE << >>)
                             \o (IF freed # {} THEN <<"lv2_ringbuffer_free">> ELSE << >>)
    /\ w_pc' = IF w_pc = "exited" THEN "none" ELSE w_pc
    /\ rings' = nullptr
    /\ requests' = lv2_ringbuffer_create(1)
    /\ responses' = lv2_ringbuffer_create(1)
    /\ iface' = FALSE
    /\ ui_pc' = "destroy_ui"
    /\ UNCHANGED <<world, nodes, plugin, jack, instance, activated, connected, ui,
                   closer, close_n, acquired, init_log>>
    /\ UNCHANGED <<running, w_data>>
    /\ UNCHANGED host_but_pc
    /\ UNCHANGED <<urid_vars, ring_vars, audio_vars, log_vars>>

\* closeHost: destroy_ui, dlclose, and the loop that unregisters the ports
\* if (jack) { unregister the ports, jack_deactivate, jack_client_close }
after_destroy_ui_bug(client) == "free"
after_destroy_ui(client) == IF client # nullptr THEN "jack_deactivate" ELSE "free"

closeHost_ui ==
    /\ ui_pc = "destroy_ui"
    /\ LET cleanup == IF ui.desc /\ ui.handle # nullptr
                      THEN {Res("ui_handle", 0)} ELSE {}
           dl == IF ui.dl # nullptr THEN {Res("ui_dl", 0)} ELSE {}
           unreg == IF jack # nullptr
                    THEN {Res("jack_port", p) : p \in UnregisteredPorts(ports)}
                    ELSE {}
       IN  /\ released' = released \cup cleanup \cup dl \cup unreg
           /\ bad' = bad \cup ((cleanup \cup dl \cup unreg) \ Live)
           /\ close_ops' = close_ops
                             \o (IF cleanup # {} THEN <<"cleanup">> ELSE << >>)
                             \o (IF dl # {} THEN <<"dlclose">> ELSE << >>)
                             \o (IF unreg # {} THEN <<"jack_port_unregister">> ELSE << >>)
           /\ ui' = [ui EXCEPT !.handle = IF cleanup # {} THEN nullptr ELSE @,
                               !.dl = nullptr]
    /\ ui_pc' = after_destroy_ui(jack)
    /\ UNCHANGED <<world, nodes, plugin, jack, instance, activated, connected, rings,
                   closer, close_n, acquired, init_log>>
    /\ UNCHANGED host_but_pc
    /\ UNCHANGED <<urid_vars, ring_vars, worker_vars, audio_vars, log_vars>>

\* closeHost: jack_deactivate returns when no process callback is running;
\* jack_client_close
closeHost_jack ==
    /\ ui_pc = "jack_deactivate"
    /\ a_pc = "idle"
    /\ jack_active' = FALSE
    /\ jack' = nullptr
    /\ released' = released \cup {Res("jack", 0)}
    /\ bad' = bad \cup ({Res("jack", 0)} \ Live)
    /\ close_ops' = close_ops \o <<"jack_deactivate", "jack_client_close">>
    /\ ui_pc' = "free"
    /\ UNCHANGED <<world, nodes, plugin, instance, activated, connected, rings, ui,
                   closer, close_n, acquired, init_log>>
    /\ UNCHANGED <<ports, shutdown, consumed, run, ui_dirty, ui_needs_initial_update,
                   ui_needs_control_update, preset_uri, control, atom_vars, ui_port,
                   obs_vars, ctl_vars>>
    /\ UNCHANGED <<urid_vars, ring_vars, worker_vars, audio_vars, log_vars>>

\* closeHost: free the instance, close the display, free the ports and the
\* world, and return
closeHost_free ==
    /\ ui_pc = "free"
    /\ LET inst == IF instance # nullptr THEN {Res("instance", 0)} ELSE {}
           win == IF ui.display # nullptr /\ ui.window # 0
                  THEN {Res("x_window", 0)} ELSE {}
           dpy == IF ui.display # nullptr THEN {Res("x_display", 0)} ELSE {}
           bufs == {Res("atom", p) : p \in {q \in DOMAIN ports : ports[q].is_atom}}
           nds == IF world # nullptr /\ nodes # nullptr
                  THEN {Res("nodes", 0)} ELSE {}
           wld == IF world # nullptr THEN {Res("world", 0)} ELSE {}
           all == inst \cup win \cup dpy \cup bufs \cup nds \cup wld
       IN  /\ released' = released \cup all
           /\ bad' = bad \cup (all \ Live)
           /\ close_ops' = close_ops
                \o (IF inst # {} THEN <<"lilv_instance_free">> ELSE << >>)
                \o (IF win # {} THEN <<"XDestroyWindow">> ELSE << >>)
                \o (IF dpy # {} THEN <<"XCloseDisplay">> ELSE << >>)
                \o (IF bufs # {} THEN <<"free", "delete">> ELSE << >>)
                \o (IF wld # {} THEN <<"lilv_node_free", "lilv_world_free">> ELSE << >>)
           /\ nodes' = IF nds # {} THEN "freed" ELSE nodes
    /\ instance' = IF instance # nullptr THEN instance_after_free ELSE instance
    /\ ui' = [ui EXCEPT !.display = nullptr,
                        !.window = IF ui.display # nullptr THEN 0 ELSE @]
    /\ world' = nullptr
    \* ports.clear()
    /\ ports' = << >>
    /\ control' = << >>
    /\ atom' = << >>
    /\ atom_state' = << >>
    /\ jack_midi' = << >>
    /\ pushed' = << >>
    /\ cyc' = << >>
    /\ consumed' = << >>
    /\ ui_written' = << >>
    /\ close_n' = close_n + 1
    /\ ui_pc' = IF closer = "run_ui_loop" THEN "exit" ELSE "done"
    /\ UNCHANGED <<plugin, jack, activated, connected, rings, closer, acquired,
                   init_log>>
    /\ UNCHANGED <<shutdown, flag_vars, ui_port, port_event, null_midi, preset_call,
                   broadcast>>
    /\ UNCHANGED <<urid_vars, ring_vars, worker_vars, audio_vars, log_vars>>

\* worker_thread_func: while (w->running.load()) is false, the thread returns
worker_thread_exit ==
    /\ w_pc = "loop"
    /\ ~running
    /\ w_pc' = "exited"
    /\ UNCHANGED <<iface, running, requests, responses, w_data>>
    /\ UNCHANGED <<life_vars, urid_vars, ring_vars, host_vars, audio_vars, log_vars>>

\* process: if (shutdown.load()) return 0
process_shutdown ==
    /\ jack_active
    /\ a_pc = "idle"
    /\ process_returns_early(shutdown)
    /\ UNCHANGED vars

\* the cycle in progress comes to a worker ring that was never created or
\* that stop_worker has freed
process_no_rings ==
    /\ rings # "live"
    /\ \/ a_pc = "run" /\ plugin.worker
       \/ a_pc = "sched"
       \/ a_pc = "deliver"
    /\ bad' = bad \cup {Res(IF a_pc = "deliver" THEN "responses" ELSE "requests", 0)}
    /\ a_pc' = "post"
    /\ a_data' = << >>
    /\ a_port' = 1
    /\ a_ev' = 0
    /\ sched_ret' = NoSchedRet
    /\ UNCHANGED cycle
    /\ UNCHANGED <<world, nodes, plugin, jack, instance, activated, connected, rings,
                   ui, closer, close_n, close_ops, acquired, released, init_log>>
    /\ UNCHANGED <<req_queue, work_call, resp_queue, deliv_call, rt_alloc, resp_ret, ring_access>>
    /\ UNCHANGED <<urid_vars, ring_vars, host_vars, worker_vars>>

\* the plugin's run calls schedule_work while the request ring is there
process_schedule_work(data) == rings = "live" /\ plugin.worker /\ host_schedule_work(data)

process_schedule_work_data == rings = "live" /\ host_schedule_work_data

\* if (host_worker.iface) deliver_worker_responses(&host_worker)
process_deliver == rings = "live" /\ deliver_worker_responses

(***************************************************************************)
(* Specifications                                                          *)
(***************************************************************************)
UridQuiet ==
    /\ urid_map = EmptyMap
    /\ urid_unmap = EmptyMap
    /\ urid_log = << >>
    /\ urid_ret = [op |-> "none", uri |-> nullptr, id |-> 0]

RingQuiet ==
    /\ ring = lv2_ringbuffer_create(RingSize)
    /\ ring_in = << >>
    /\ ring_out = << >>

\* no call of ui_write or apply_preset yet
CtlQuiet ==
    /\ ui_written = [p \in ControlPorts |-> NotWritten]
    /\ preset_call = NoPresetCall
    /\ broadcast = "none"

\* no UI loop, no control values, no atom buffers
UiQuiet ==
    /\ run = FALSE
    /\ ui_dirty = FALSE
    /\ ui_needs_initial_update = FALSE
    /\ ui_needs_control_update = FALSE
    /\ preset_uri = ""
    /\ control = << >>
    /\ atom = << >>
    /\ atom_state = << >>
    /\ jack_midi = << >>
    /\ ui_pc = "start"
    /\ ui_port = 1
    /\ pushed = << >>
    /\ port_event = NoPortEvent
    /\ cyc = << >>
    /\ null_midi = FALSE
    /\ consumed = << >>
    /\ CtlQuiet

\* no plugin instance, no worker, audio callback never entered
HostQuiet ==
    /\ ports = << >>
    /\ shutdown = FALSE
    /\ jack_active = FALSE
    /\ UiQuiet

WorkerQuiet ==
    /\ iface = FALSE
    /\ running = FALSE
    /\ requests = lv2_ringbuffer_create(1)
    /\ responses = lv2_ringbuffer_create(1)
    /\ w_pc = "loop"
    /\ w_data = << >>

AudioQuiet ==
    /\ a_pc = "idle"
    /\ a_data = << >>
    /\ a_port = 1
    /\ a_ev = 0
    /\ cycle = 0

LogQuiet ==
    /\ req_queue = << >>
    /\ work_call = [n |-> 0, size |-> 0, data |-> << >>, req |-> Missing]
    /\ resp_queue = << >>
    /\ deliv_call = [n |-> 0, size |-> 0, data |-> << >>, cycle |-> 0, resp |-> Missing]
    /\ rt_alloc = {}
    /\ resp_ret = NoSchedRet
    /\ sched_ret = NoSchedRet
    /\ ring_access = {}

\* after construction: the members with an initialiser
LifeNull ==
    /\ world = nullptr
    /\ plugin = NoPlugin
    /\ jack = nullptr
    /\ instance = nullptr
    /\ activated = FALSE
    /\ connected = {}
    /\ ui = UiNull
    /\ closer = "none"
    /\ close_n = 0
    /\ close_ops = << >>
    /\ acquired = {}
    /\ released = {}
    /\ bad = {}
    /\ init_log = << >>

\* after construction, where the life cycle is not looked at
LifeQuiet ==
    /\ LifeNull
    /\ nodes = nullptr
    /\ rings = nullptr

\* after init returned true, and after initUi did when ui_up
LifeReady(ui_up) ==
    /\ world = "live"
    /\ nodes = "live"
    /\ plugin = [found |-> TRUE, required |-> {}, worker |-> iface]
    /\ jack = "live"
    /\ instance = "live"
    /\ activated = TRUE
    /\ connected = ConnectedPorts(ports)
    /\ rings = IF iface THEN "live" ELSE nullptr
    /\ ui = IF ui_up THEN UiLive ELSE UiNull
    /\ closer = "none"
    /\ close_n = 0
    /\ close_ops = << >>
    /\ acquired = {Res("world", 0), Res("nodes", 0), Res("jack", 0), Res("instance", 0)}
                    \cup {Res("jack_port", p) : p \in RegisteredPorts(ports)}
                    \cup {Res("atom", p) : p \in AtomPorts}
                    \cup (IF iface
                          THEN {Res("requests", 0), Res("responses", 0),
                                Res("worker_thread", 0)}
                          ELSE {})
                    \cup UiResources(IF ui_up THEN UiLive ELSE UiNull)
    /\ released = {}
    /\ bad = {}
    /\ init_log = << Stage("init_lilv", TRUE), Stage("init_jack", TRUE),
                     Stage("init_ports", TRUE), Stage("init_instance", TRUE) >>
                    \o (IF ui_up THEN << Stage("initUi", TRUE) >> ELSE << >>)


RestQuiet == HostQuiet /\ WorkerQuiet /\ AudioQuiet /\ LogQuiet /\ LifeQuiet

\* the registry: empty after construction, then any calls
InitUrid == UridQuiet /\ RingQuiet /\ RestQuiet

NextUrid ==
    \/ \E uri \in Uris : map_uri_call(uri)
    \/ \E urid \in 0..(NumUris + 1) : unmap_uri_call(urid)

SpecUrid == InitUrid /\ [][NextUrid]_vars

\* the ring buffer on its own
InitRing == UridQuiet /\ RingQuiet /\ RestQuiet

NextRing ==
    \/ \E bytes \in RingChunks : RingWrite(bytes)
    \/ \E bytes \in RingChunks : RingWriteFull(bytes)
    \/ \E n \in 1..2 : RingRead(n)

SpecRing == InitRing /\ [][NextRing]_vars

\* the worker round trip: a plugin with a worker interface and one audio
\* port, after init_instance started the worker thread
InitWorker ==
    /\ UridQuiet /\ RingQuiet /\ AudioQuiet /\ LogQuiet
    /\ ports = << Port(0, "audio", TRUE, FALSE, "in", 0) >>
    /\ shutdown = FALSE
    /\ jack_active = TRUE
    /\ UiQuiet
    /\ iface = TRUE
    /\ running = TRUE
    /\ requests = lv2_ringbuffer_create(WorkerRingSize)
    /\ responses = lv2_ringbuffer_create(WorkerRingSize)
    /\ w_pc = "loop"
    /\ w_data = << >>
    /\ LifeReady(TRUE)

NextWorker == AudioThread \/ WorkerThread

SpecWorker == InitWorker /\ [][NextWorker]_vars

\* the audio server keeps calling process and the worker thread keeps
\* running; the plugin's run and work do not retry a refused call for ever
SpecWorkerFair ==
    InitWorker /\ [][NextWorker]_vars /\ WF_vars(AudioThread) /\ WF_vars(WorkerThread)
        /\ WF_vars(plugin_run_return) /\ WF_vars(plugin_work_return)

\* the atom output path: a plugin without a worker interface, with one
\* audio port and one output atom port that supports MIDI, after initUi
InitAtom ==
    /\ UridQuiet /\ RingQuiet /\ WorkerQuiet /\ AudioQuiet /\ LogQuiet
    /\ ports = << Port(0, "audio", TRUE, FALSE, "in", 0),
                  Port(1, "atom", FALSE, TRUE, "notify", 0) >>
    /\ shutdown = FALSE
    /\ run = FALSE
    /\ ui_dirty = FALSE
    /\ ui_needs_initial_update = TRUE
    /\ ui_needs_control_update = FALSE
    /\ jack_active = TRUE
    /\ preset_uri = ""
    /\ CtlQuiet
    /\ control = << >>
    /\ atom = [p \in AtomPorts |-> AtomBuf(ports[p])]
    /\ atom_state = [p \in AtomPorts |-> AtomState(AtomRingSize)]
    /\ jack_midi = [p \in MidiPorts |-> << >>]
    /\ ui_pc = "start"
    /\ ui_port = 1
    /\ pushed = [p \in OutAtomPorts |-> << >>]
    /\ port_event = NoPortEvent
    /\ cyc = [p \in OutAtomPorts |-> NoCycle]
    /\ null_midi = FALSE
    /\ consumed = [p \in InAtomPorts |-> NoConsumed]
    /\ LifeReady(TRUE)

NextAtom == AtomAudioThread \/ UiThread

SpecAtom == InitAtom /\ [][NextAtom]_vars

\* the atom input path: a plugin without a worker interface, with an input
\* atom port that supports MIDI and one that does not, after initUi
InitIn ==
    /\ UridQuiet /\ RingQuiet /\ WorkerQuiet /\ AudioQuiet /\ LogQuiet
    /\ ports = << Port(0, "atom", TRUE, TRUE, "midi_in", 0),
                  Port(1, "atom", TRUE, FALSE, "control", 0) >>
    /\ shutdown = FALSE
    /\ run = FALSE
    /\ ui_dirty = FALSE
    /\ ui_needs_initial_update = TRUE
    /\ ui_needs_control_update = FALSE
    /\ jack_active = TRUE
    /\ preset_uri = ""
    /\ CtlQuiet
    /\ control = << >>
    /\ atom = [p \in AtomPorts |-> AtomBuf(ports[p])]
    /\ atom_state = [p \in AtomPorts |-> AtomState(AtomRingSize)]
    /\ jack_midi = [p \in MidiPorts |-> << >>]
    /\ ui_pc = "start"
    /\ ui_port = 1
    /\ pushed = [p \in OutAtomPorts |-> << >>]
    /\ port_event = NoPortEvent
    /\ cyc = [p \in OutAtomPorts |-> NoCycle]
    /\ null_midi = FALSE
    /\ consumed = [p \in InAtomPorts |-> NoConsumed]
    /\ LifeReady(TRUE)

NextIn ==
    \/ UiThread
    \/ \E port \in 0..(Len(ports) - 1), buf \in UiBufs :
          ui_write(port, Len(buf), urids.atom_eventTransfer, buf)
    \/ \E midi_in \in MidiInputs : process_enter(midi_in)
    \/ plugin_run_return
    \/ process_post_port
    \/ process_return

SpecIn == InitIn /\ [][NextIn]_vars

\* the control cells: a plugin without a worker interface, with a control
\* input, a control output and an output atom port, after init
InitCtl ==
    /\ UridQuiet /\ RingQuiet /\ WorkerQuiet /\ AudioQuiet /\ LogQuiet
    /\ ports = << Port(0, "control", TRUE, FALSE, "gain", 5),
                  Port(1, "control", FALSE, FALSE, "level", 0),
                  Port(2, "atom", FALSE, FALSE, "notify", 0) >>
    /\ shutdown = FALSE
    /\ run = FALSE
    /\ ui_dirty = FALSE
    /\ ui_needs_initial_update = FALSE
    /\ ui_needs_control_update = FALSE
    /\ jack_active = FALSE
    /\ preset_uri = ""
    /\ CtlQuiet
    /\ control = [p \in ControlPorts |-> 0]
    /\ atom = [p \in AtomPorts |-> AtomBuf(ports[p])]
    /\ atom_state = [p \in AtomPorts |-> AtomState(AtomRingSize)]
    /\ jack_midi = [p \in MidiPorts |-> << >>]
    /\ ui_pc = "main"
    /\ ui_port = 1
    /\ pushed = [p \in OutAtomPorts |-> << >>]
    /\ port_event = NoPortEvent
    /\ cyc = [p \in OutAtomPorts |-> NoCycle]
    /\ null_midi = FALSE
    /\ consumed = [p \in InAtomPorts |-> NoConsumed]
    /\ LifeReady(FALSE)

\* the values the plugin writes to a control output
PluginValues == {0, 7}

NextCtl ==
    \/ \E kind \in PresetKinds, preset \in Presets : apply_preset(kind, preset)
    \/ main_no_preset
    \/ initUi
    \/ UiThread
    \/ \E port \in 0..(Len(ports) - 1), type \in {0, urids.atom_eventTransfer},
          buf \in UiBufs : ui_write(port, Len(buf), type, buf)
    \/ \E midi_in \in MidiInputs : process_enter(midi_in)
    \/ \E p \in ControlOutputs, value \in PluginValues : plugin_run_control(p, value)
    \/ plugin_run_return
    \/ process_post_port
    \/ process_post_reset
    \/ process_return

SpecCtl == InitCtl /\ [][NextCtl]_vars

\* the worker and the preset: a plugin with a worker interface and one audio
\* port, after init started the worker thread and before main applies the
\* preset and activates the JACK client
InitOwn ==
    /\ UridQuiet /\ RingQuiet /\ AudioQuiet /\ LogQuiet
    /\ ports = << Port(0, "audio", TRUE, FALSE, "in", 0) >>
    /\ shutdown = FALSE
    /\ run = FALSE
    /\ ui_dirty = FALSE
    /\ ui_needs_initial_update = FALSE
    /\ ui_needs_control_update = FALSE
    /\ jack_active = FALSE
    /\ preset_uri = ""
    /\ CtlQuiet
    /\ control = << >>
    /\ atom = << >>
    /\ atom_state = << >>
    /\ jack_midi = << >>
    /\ ui_pc = "main"
    /\ ui_port = 0
    /\ pushed = << >>
    /\ port_event = NoPortEvent
    /\ cyc = << >>
    /\ null_midi = FALSE
    /\ consumed = << >>
    /\ iface = TRUE
    /\ running = TRUE
    /\ requests = lv2_ringbuffer_create(WorkerRingSize)
    /\ responses = lv2_ringbuffer_create(WorkerRingSize)
    /\ w_pc = "loop"
    /\ w_data = << >>
    /\ LifeReady(FALSE)

NextOwn ==
    \/ restore_schedule_work
    \/ restore_schedule_work_data
    \/ \E kind \in PresetKinds, preset \in Presets : apply_preset(kind, preset)
    \/ main_no_preset
    \/ initUi
    \/ AudioThread
    \/ WorkerThread

SpecOwn == InitOwn /\ [][NextOwn]_vars

\* the life cycle: the host after construction, before main calls init; the
\* members of host_worker and the port classes have no initialiser
InitLife ==
    /\ UridQuiet /\ RingQuiet /\ AudioQuiet /\ LogQuiet
    /\ LifeNull
    /\ nodes \in {nullptr, "garbage"}
    /\ rings \in {nullptr, "garbage"}
    /\ iface \in BOOLEAN
    /\ running \in BOOLEAN
    /\ requests = lv2_ringbuffer_create(1)
    /\ responses = lv2_ringbuffer_create(1)
    /\ w_pc = "none"
    /\ w_data = << >>
    /\ ports = << >>
    /\ shutdown = FALSE
    /\ run = FALSE
    /\ ui_dirty = FALSE
    /\ ui_needs_initial_update = FALSE
    /\ ui_needs_control_update = FALSE
    /\ jack_active = FALSE
    /\ preset_uri = ""
    /\ CtlQuiet
    /\ control = << >>
    /\ atom = << >>
    /\ atom_state = << >>
    /\ jack_midi = << >>
    /\ ui_pc = "init_lilv"
    /\ ui_port = 1
    /\ pushed = << >>
    /\ port_event = NoPortEvent
    /\ cyc = << >>
    /\ null_midi = FALSE
    /\ consumed = << >>

\* what the MIDI input port holds in a cycle of the life cycle
LifeMidi == << <<144, 60, 100>> >>

MainThread ==
    \/ \E pl \in Plugins \cup {NoPlugin} : init_lilv(pl)
    \/ \E ok \in BOOLEAN : init_jack(ok)
    \/ init_ports(LifePorts)
    \/ \E instantiated \in BOOLEAN : init_instance(instantiated)
    \/ main_no_preset
    \/ initUi_ok
    \/ \E outcome \in InitUiOutcomes : initUi_fail(outcome)
    \/ UiThread
    \/ run_ui_loop_delete
    \/ run_ui_loop_close
    \/ destructor
    \/ closeHost_enter
    \/ stop_worker
    \/ closeHost_ui
    \/ closeHost_jack
    \/ closeHost_free

NextLife ==
    \/ MainThread
    \/ process_enter(LifeMidi)
    \/ process_schedule_work(LifePayload)
    \/ process_schedule_work_data
    \/ plugin_run_return
    \/ process_deliver
    \/ process_no_rings
    \/ process_post_port
    \/ process_return
    \/ process_shutdown
    \/ worker_thread_sleep
    \/ worker_thread_func
    \/ host_respond(LifePayload)
    \/ host_respond_data
    \/ plugin_work_return
    \/ worker_thread_exit

SpecLife == InitLife /\ [][NextLife]_vars

WorkerLife ==
    \/ worker_thread_func
    \/ host_respond(LifePayload)
    \/ host_respond_data
    \/ plugin_work_return
    \/ worker_thread_exit

AudioLife ==
    \/ plugin_run_return
    \/ process_deliver
    \/ process_no_rings
    \/ process_post_port
    \/ process_return

\* the threads keep running: the main thread goes on, the worker thread goes
\* round its loop, and a process callback that was entered returns
SpecLifeFair ==
    InitLife /\ [][NextLife]_vars
        /\ WF_vars(MainThread) /\ WF_vars(WorkerLife) /\ WF_vars(AudioLife)

(***************************************************************************)
(* C2: every request schedule_work accepted is handed to the plugin's work *)
(* at most once and in the order accepted, with the size and the bytes     *)
(* passed to schedule_work: each call of work takes the oldest accepted    *)
(* request not yet worked, whole, whatever the interleaving of the two     *)
(* writes of a frame with the worker's peek and reads.                     *)
(***************************************************************************)
C2_WorkFifo ==
    work_call.n > 0 =>
        /\ work_call.req # Missing
        /\ work_call.data = work_call.req.data
        /\ work_call.size = Len(work_call.req.data)

\* a request was worked and the worker is back at its loop while the ring
\* holds the size header of the next frame without its payload
C2_Witness ==
    /\ work_call.n = 1
    /\ a_pc = "sched"
    /\ w_pc = "loop"
    /\ lv2_ringbuffer_read_space(requests) = SizeofU32

(***************************************************************************)
(* C14: host_schedule_work fails atomically on a full ring: a call that    *)
(* finds less write space in the request ring than 4 + size returns the    *)
(* no-space status and leaves the ring as it was, byte for byte; when a    *)
(* call returns success the newest 4 + size bytes of the ring are the      *)
(* whole frame, the size then the payload.                                 *)
(***************************************************************************)
\* the newest n bytes of a ring buffer
RingNewest(rb, n) ==
    LET all == lv2_ringbuffer_peek(rb, lv2_ringbuffer_read_space(rb))
    IN  IF n > Len(all) THEN << >> ELSE SubSeq(all, Len(all) - n + 1, Len(all))

C14_Returned ==
    /\ sched_ret' # sched_ret
    /\ sched_ret'.status # "none"

C14_Step ==
    C14_Returned =>
        LET data == sched_ret'.data
        IN  IF sched_ret'.status = "LV2_WORKER_ERR_NO_SPACE"
            THEN /\ lv2_ringbuffer_write_space(requests) < SizeofU32 + Len(data)
                 /\ requests' = requests
            ELSE /\ sched_ret'.status = "LV2_WORKER_SUCCESS"
                 /\ RingNewest(requests', SizeofU32 + Len(data))
                        = Enc32(Len(data)) \o data

C14_ScheduleAtomic == [][C14_Step]_vars

\* a call failed for lack of space while an unread frame filled the ring
C14_Witness ==
    /\ sched_ret.status = "LV2_WORKER_ERR_NO_SPACE"
    /\ sched_ret.data = <<90, 90>>
    /\ lv2_ringbuffer_read_space(requests) > 0
    /\ Len(req_queue) = 1

(***************************************************************************)
(* C1: the responses host_respond accepted are delivered to work_response  *)
(* once each and in the order produced: each call of work_response, made   *)
(* by the audio thread inside process(), takes the oldest accepted         *)
(* response not yet delivered, byte for byte, and never in an audio cycle  *)
(* before the one that scheduled its request.                              *)
(***************************************************************************)
C1_ResponseFifo ==
    deliv_call.n > 0 =>
        /\ deliv_call.resp # Missing
        /\ deliv_call.data = deliv_call.resp.data
        /\ deliv_call.size = Len(deliv_call.resp.data)
        /\ deliv_call.cycle >= deliv_call.resp.cycle

\* the second response was delivered, in a cycle after the one that
\* scheduled its request
C1_Witness ==
    /\ deliv_call.n = 2
    /\ deliv_call.data = <<90, 90>>
    /\ deliv_call.cycle > deliv_call.resp.cycle

(***************************************************************************)
(* C3: while the audio server keeps calling process and the worker thread  *)
(* keeps running, every accepted request is eventually handed to work and  *)
(* every accepted response is eventually delivered to work_response.       *)
(***************************************************************************)
C3_RoundTrip ==
    /\ \A k \in 1..MaxReq : (NumRequests >= k) ~> (work_call.n >= k)
    /\ \A j \in 1..MaxResp : (NumResponses >= j) ~> (deliv_call.n >= j)

\* every request was worked and every response delivered, the last one in
\* a cycle after the one that scheduled its request
C3_Witness ==
    /\ work_call.n = MaxReq
    /\ deliv_call.n = MaxResp
    /\ Len(req_queue) = 0
    /\ Len(resp_queue) = 0
    /\ w_pc = "loop"

(***************************************************************************)
(* C4: for every output atom port and every audio cycle, the number of     *)
(* events of the cycle the UI loop hands to port_event (those handed so    *)
(* far and those waiting in the ring) is at most the number of events the  *)
(* plugin wrote in the cycle, and once the cycle's drain is over it equals *)
(* that number when the DSP->UI ring had write space for every event.      *)
(***************************************************************************)
C4_EventCount ==
    \A p \in OutAtomPorts :
        LET handed == cyc[p].seen + InFlight(pushed[p])
        IN  /\ handed <= cyc[p].written
            /\ (cyc[p].done /\ ~cyc[p].nospace) => handed = cyc[p].written

\* the bytes of the frames of a queue, oldest first
RECURSIVE QueueBytes(_)
QueueBytes(q) == IF q = << >> THEN << >> ELSE Head(q).bytes \o QueueBytes(Tail(q))

(***************************************************************************)
(* C5: every frame process() pushed into a port's DSP->UI ring is handed   *)
(* to port_event once and in FIFO order: the ring holds exactly the frames *)
(* pushed and not yet handed over, oldest first, and each call of          *)
(* port_event by the drain takes the oldest of them whole, header and      *)
(* body, with the bytes the DSP wrote, the index of the producing port and *)
(* the atom:eventTransfer URID as format.                                  *)
(***************************************************************************)
C5_FrameIntact ==
    /\ \A p \in OutAtomPorts :
          LET rb == atom_state[p].dsp_to_ui
          IN  lv2_ringbuffer_peek(rb, lv2_ringbuffer_read_space(rb))
                  = QueueBytes(pushed[p])
    /\ (port_event.called /\ port_event.src = "dsp_to_ui") =>
          /\ port_event.frame # MissingFrame
          /\ port_event.buf = port_event.frame.bytes
          /\ port_event.size = Len(port_event.frame.bytes)
          /\ port_event.port = port_event.frame.port
          /\ port_event.format = urids.atom_eventTransfer

\* the UI loop handed over the first event of the cycle in progress, a MIDI
\* event, while the audio thread had not yet pushed the second
C5_Witness ==
    /\ port_event.called
    /\ port_event.src = "dsp_to_ui"
    /\ port_event.frame.cur
    /\ port_event.buf = AtomBytes(Event(urids.midi_Event, <<248>>))
    /\ port_event.port = 1
    /\ a_pc = "post"
    /\ a_ev = 2
    /\ ~foreach_stops(atom[a_port], a_ev)

(***************************************************************************)
(* C9: when apply_preset returns for a loadable preset, whether its state  *)
(* came from the plugin world or from a file parsed from the URI, every    *)
(* control port whose symbol is a key of the preset holds the preset's     *)
(* value and every other control port holds the value it had before.       *)
(***************************************************************************)
C9_PresetApplied ==
    (ui_pc = "init_ui" /\ preset_call.kind \in {"world", "file"}) =>
        \A p \in ControlPorts :
            LET keys == {i \in DOMAIN preset_call.preset :
                            preset_call.preset[i].symbol = ports[p].symbol}
            IN  IF keys = {} THEN control[p] = preset_call.before[p]
                ELSE \E i \in keys : control[p] = preset_call.preset[i].value

\* an event as the plugin is to read it
Seen(ev) ==
    [frames |-> ev.frames, frames_hi |-> 0, size |-> Len(ev.body),
     type |-> ev.type, body |-> ev.body]

\* the events the plugin's run reads from the sequence of an input port
SeenEvents(p) ==
    LET evs == sequence_read(atom[p], SizeofSeqBody)
    IN  [k \in DOMAIN evs |->
            [frames |-> evs[k].frames, frames_hi |-> evs[k].frames_hi,
             size |-> evs[k].size, type |-> evs[k].type, body |-> evs[k].body]]

\* the MIDI events and the UI message process() took for the cycle
MidiTaken(p) ==
    [k \in DOMAIN consumed[p].midi |->
        Seen(Event(urids.midi_Event, consumed[p].midi[k]))]

UiTaken(p) == Seen(Event(consumed[p].type, consumed[p].buf))

(***************************************************************************)
(* C15: a UI atom write on an input atom port is in that port's input      *)
(* sequence, as an event with frame 0, the type the write recorded and the *)
(* bytes of the last write, when the plugin runs in the first audio cycle  *)
(* that starts after the pending flag was set; a cycle that found no       *)
(* pending message has no such event.                                      *)
(***************************************************************************)
C15_UiMessage ==
    a_pc = "run" =>
        \A p \in InAtomPorts :
            IF consumed[p].pending
            THEN \E k \in DOMAIN SeenEvents(p) : SeenEvents(p)[k] = UiTaken(p)
            ELSE Len(SeenEvents(p)) = Len(consumed[p].midi)

(***************************************************************************)
(* C19: on an input atom port that supports MIDI, in a cycle where the     *)
(* host MIDI buffer holds k events and a UI message is pending, the plugin *)
(* reads the k MIDI events (type the MIDI URID, body the MIDI bytes) and   *)
(* after them the UI message.                                              *)
(***************************************************************************)
C19_MidiThenUi ==
    a_pc = "run" =>
        \A p \in InAtomPorts \cap MidiPorts :
            (consumed[p].pending /\ consumed[p].midi # << >>) =>
                SeenEvents(p) = MidiTaken(p) \o <<UiTaken(p)>>

(***************************************************************************)
(* C20: at every call of the plugin's run every input atom port holds a    *)
(* well-formed sequence: type Sequence, size at least the size of the      *)
(* sequence body, unit 0 and pad 0, and every event ends inside the        *)
(* advertised size.                                                        *)
(***************************************************************************)
C20_WellFormed ==
    a_pc = "run" =>
        \A p \in InAtomPorts :
            /\ atom[p].type = urids.atom_Sequence
            /\ atom[p].size >= SizeofSeqBody
            /\ MemRead(atom[p].mem, 0, SizeofSeqBody) = [i \in 1..SizeofSeqBody |-> 0]
            /\ LET evs == sequence_read(atom[p], SizeofSeqBody)
               IN  \A k \in DOMAIN evs :
                      evs[k].off + SizeofEvent + evs[k].size <= atom[p].size

(***************************************************************************)
(* C18: when apply_preset fails (invalid preset URI, preset not found,     *)
(* state not loaded) it changes no control cell, leaves                    *)
(* ui_needs_control_update clear and sets ui_needs_initial_update; the     *)
(* flags stay so until the first iteration of the UI loop tests them,      *)
(* which then sets the control inputs to their defaults and hands the      *)
(* defaults to the UI, and does not broadcast the current values.          *)
(***************************************************************************)
C18_Failures == {"invalid_uri", "not_found", "load_failed"}

C18_Returned ==
    (ui_pc = "init_ui" /\ preset_call.kind \in C18_Failures) =>
        /\ control = preset_call.before
        /\ ui_needs_initial_update
        /\ ~ui_needs_control_update

C18_Scheduled ==
    (preset_call.kind = "failed" /\ ui_pc # "control") =>
        /\ ui_needs_initial_update
        /\ ~ui_needs_control_update

C18_Broadcast ==
    (preset_call.kind = "failed" /\ ui_pc = "initial" /\ ui_pc' = "control") =>
        /\ broadcast' = "send_initial_ui_values"
        /\ \A p \in ControlInputs : control'[p] = ports[p].defvalue
        /\ \A p \in ControlOutputs : control'[p] = control[p]
        /\ ~ui_needs_control_update'

C18_PresetFailure ==
    []C18_Returned /\ []C18_Scheduled /\ [][C18_Broadcast]_vars

\* after a failed apply_preset the first iteration of the UI loop has sent
\* the defaults: gain holds its default 5
C18_Witness ==
    /\ preset_uri = "preset"
    /\ broadcast = "send_initial_ui_values"
    /\ ui_pc = "control"
    /\ control[1] = 5
    /\ ~ui_needs_control_update

(***************************************************************************)
(* C10: a ui_write of sizeof(float) bytes on a control port stores the     *)
(* value in that port's control cell, and the cell holds it at every later *)
(* moment until something else writes the cell, so the plugin's run of the *)
(* next audio cycle reads it; the call changes no other control cell, no   *)
(* atom buffer and no UI-to-DSP message or pending flag.                   *)
(***************************************************************************)
C10_Stored ==
    \A p \in ControlPorts :
        ui_written[p].set => control[p] = ui_written[p].value

\* a step in which ui_write stored to the control port p
C10_Write(p) ==
    /\ ui_written'[p].set
    /\ ~ui_written'[p].settled
    /\ ui_written'[p] # ui_written[p]

C10_Frame ==
    \A p \in ControlPorts :
        C10_Write(p) =>
            /\ control' = [control EXCEPT ![p] = ui_written'[p].value]
            /\ UNCHANGED <<atom, atom_state>>

C10_ControlWrite == []C10_Stored /\ [][C10_Frame]_vars

\* the UI wrote 2 to the port gain and a message to the atom port; an audio
\* cycle started after that and its run reads the cell, which holds 2, while
\* the port level holds the value the plugin wrote
C10_Witness ==
    /\ ui_written[1].set
    /\ ui_written[1].settled
    /\ ui_written[1].value = 2
    /\ a_pc = "run"
    /\ control[1] = 2
    /\ control[2] = 7
    /\ atom_state[3].ui_to_dsp_pending

(***************************************************************************)
(* C8: process() allocates nothing on the heap, on any path.               *)
(***************************************************************************)
C8_NoAudioAlloc == rt_alloc = {}

(***************************************************************************)
(* C7: the URID registry is a stable bijection between the URIs mapped so  *)
(* far and the ids 1..n: the i-th first-seen URI is bound to id i for      *)
(* good, map_uri returns that id on every call, unmap_uri(map_uri(u)) = u, *)
(* and unmap_uri answers nullptr for an id never handed out.               *)
(***************************************************************************)
C7_UridBijection ==
    /\ DOMAIN urid_map = Range(urid_log)
    /\ DOMAIN urid_unmap = 1..Len(urid_log)
    /\ \A i \in 1..Len(urid_log) :
          /\ urid_map[urid_log[i]] = i
          /\ unmap_uri(urid_unmap, map_uri_id(urid_map, urid_log[i])) = urid_log[i]
    /\ urid_ret.op = "map" =>
          /\ urid_ret.uri \in Range(urid_log)
          /\ urid_log[urid_ret.id] = urid_ret.uri
    /\ urid_ret.op = "unmap" =>
          urid_ret.uri = IF urid_ret.id \in 1..Len(urid_log)
                         THEN urid_log[urid_ret.id] ELSE nullptr

\* two URIs are mapped, the first was mapped again and got its id back
C7_Witness ==
    /\ Len(urid_log) >= 2
    /\ urid_ret.op = "map"
    /\ urid_ret.uri = urid_log[1]
    /\ urid_ret.id = 1

(***************************************************************************)
(* C6: for any interleaving of the producer's writes and the reader's      *)
(* reads, the bytes read are the bytes written, in FIFO order, the bytes   *)
(* still queued are exactly the ones written and not yet read, and         *)
(* write_space + read_space <= capacity - 1.                               *)
(***************************************************************************)
C6_RingFifo ==
    /\ IsPrefix(ring_out, ring_in)
    /\ lv2_ringbuffer_read_space(ring) = Len(ring_in) - Len(ring_out)
    /\ lv2_ringbuffer_peek(ring, lv2_ringbuffer_read_space(ring))
          = SubSeq(ring_in, Len(ring_out) + 1, Len(ring_in))
    /\ lv2_ringbuffer_write_space(ring) + lv2_ringbuffer_read_space(ring)
          <= ring.size - 1

\* the write index has wrapped around: the bytes queued lie across the end
\* of the buffer, after earlier bytes were read
C6_Witness ==
    /\ Len(ring_in) > RingSize
    /\ Len(ring_out) > 0
    /\ ring.w < ring.r
    /\ lv2_ringbuffer_read_space(ring) >= 2

(***************************************************************************)
(* C16: the worker thread is the only thread that reads the request ring   *)
(* and the only one that writes the response ring, and the audio thread is *)
(* the only thread that writes the request ring and the only one that      *)
(* reads the response ring: no schedule_work call is made on the main      *)
(* thread, apply_preset's state restore included.                          *)
(***************************************************************************)
RingOwner(ring_name, op) ==
    IF (ring_name = "requests") = (op = "read") THEN "worker" ELSE "audio"

C16_RingOwnership ==
    \A a \in ring_access : a.thread = RingOwner(a.ring, a.op)

(***************************************************************************)
(* C17: if the plugin declares a required feature that is not in the       *)
(* host's feature table, init returns false, the plugin is never           *)
(* instantiated, no worker thread is started, no port is connected and the *)
(* instance is never activated; and no stage of init or initUi runs after  *)
(* the first stage that returned false.                                    *)
(***************************************************************************)
FeatureMissing == plugin.found /\ ~(plugin.required \subseteq HostFeatures)

C17_RequiredFeature ==
    /\ FeatureMissing =>
          /\ \A i \in DOMAIN init_log :
                init_log[i].stage = "init_instance" => ~init_log[i].ok
          /\ instance = nullptr
          /\ Res("instance", 0) \notin acquired
          /\ Res("worker_thread", 0) \notin acquired
          /\ w_pc = "none"
          /\ connected = {}
          /\ ~activated
    /\ \A i \in DOMAIN init_log : i < Len(init_log) => init_log[i].ok

\* init_instance returned false for the missing feature, main returned and
\* the destructor has run
C17_Witness ==
    /\ FeatureMissing
    /\ Len(init_log) = 4
    /\ init_log[4] = Stage("init_instance", FALSE)
    /\ ui_pc = "done"

(***************************************************************************)
(* C11: on a WM_DELETE_WINDOW client message the UI loop sets shutdown in  *)
(* that iteration, before it clears run and before any teardown step;      *)
(* every audio cycle that starts afterwards is a no-op; stop_worker's join *)
(* returns, and the worker thread has exited when it does; every           *)
(* registered JACK port is unregistered; and the UI loop does no further   *)
(* broadcast, ring drain or idle call.                                     *)
(***************************************************************************)
ClosePcs == {"closeHost", "stop_worker", "destroy_ui", "jack_deactivate", "free"}

C11_Order ==
    /\ ui_pc = "delete" => shutdown /\ run /\ closer = "none" /\ released = {}
    /\ closer = "run_ui_loop" => shutdown /\ ~run
    /\ shutdown => ui_pc \in {"delete", "exit", "done"} \cup ClosePcs

C11_Released ==
    closer = "run_ui_loop" =>
        /\ ui_pc \in {"destroy_ui", "jack_deactivate", "free", "exit"} =>
              /\ w_pc = "none"
              /\ plugin.worker => Res("worker_thread", 0) \in released
        /\ ui_pc \in {"jack_deactivate", "free", "exit"} =>
              /\ \A p \in RegisteredPorts(LifePorts) :
                    Res("jack_port", p) \in released
              /\ \A r \in Live : r[1] # "jack_port"

C11_Step ==
    /\ (shutdown' /\ ~shutdown) => ui_pc = "sleep" /\ ui_pc' = "delete"
    /\ (shutdown /\ a_pc = "idle") => a_pc' = "idle"
    /\ shutdown => broadcast' = broadcast /\ port_event' = port_event

C11_Join ==
    (closer = "run_ui_loop" /\ ui_pc = "stop_worker") ~> (ui_pc = "destroy_ui")

C11_WindowClose ==
    /\ [](C11_Order /\ C11_Released)
    /\ [][C11_Step]_vars
    /\ C11_Join

\* the window of a plugin with a worker was closed, closeHost joined the
\* worker thread and unregistered the ports, and the loop returned
C11_Witness ==
    /\ shutdown
    /\ closer = "run_ui_loop"
    /\ ui_pc = "exit"
    /\ Res("worker_thread", 0) \in released
    /\ Res("jack_port", 1) \in released
    /\ cycle > 0

(***************************************************************************)
(* C12: closeHost is idempotent: a second call, as the destructor makes    *)
(* after the UI loop called it on the window close, performs no            *)
(* deactivate, join, cleanup, unregister, close or free, and leaves the    *)
(* state of the host as the first call left it.                            *)
(***************************************************************************)
SecondCall == (close_n = 1 /\ ui_pc \in ClosePcs) \/ close_n = 2

\* the members closeHost and stop_worker read or write
HostState ==
    <<world, nodes, jack, instance, ui, ports, control, atom, atom_state, rings,
      iface, running, requests, responses, w_pc, jack_active, activated, connected>>

C12_NoRelease == SecondCall => close_ops = << >>

C12_Unchanged ==
    (SecondCall /\ ui_pc \in ClosePcs) =>
        /\ HostState' = HostState
        /\ released' = released
        /\ bad' = bad

C12_Idempotent == []C12_NoRelease /\ [][C12_Unchanged]_vars

\* the destructor's closeHost returned after the one of the window close,
\* which had released the instance, the worker, the UI and the ports
C12_Witness ==
    /\ close_n = 2
    /\ ui_pc = "done"
    /\ shutdown
    /\ {Res("instance", 0), Res("worker_thread", 0), Res("requests", 0),
        Res("ui_handle", 0), Res("x_display", 0), Res("jack", 0),
        Res("jack_port", 1), Res("atom", 2), Res("world", 0)} \subseteq released

(***************************************************************************)
(* C13: whatever stage of init or initUi fails, the closeHost the          *)
(* destructor runs releases exactly the resources acquired before the      *)
(* failure: it never releases, joins or frees a resource that was never    *)
(* acquired or initialised, and leaves none of the acquired ones behind.   *)
(***************************************************************************)
InitFailed == init_log # << >> /\ ~init_log[Len(init_log)].ok

C13_SafeDestruction ==
    InitFailed =>
        /\ released \subseteq acquired
        /\ bad = {}
        /\ ui_pc = "done" => released = acquired

(***************************************************************************)
(* C21: at every call of the plugin's run the header of every output atom  *)
(* port has type 0 and size = capacity - sizeof(LV2_Atom); after the drain *)
(* of the cycle the header is reset to the same type and size; and the     *)
(* capacity of the buffer is the one init_ports gave it.                   *)
(***************************************************************************)
FreeSpace(p) == ports[p].atom_buf_size - SizeofAtom

C21_HeaderReset ==
    \A p \in OutAtomPorts :
        /\ ports[p].atom_buf_size = required_atom_size
        /\ (a_pc = "run" /\ cyc[p].written = 0) =>
              atom[p].type = 0 /\ atom[p].size = FreeSpace(p)
        /\ cyc[p].done => atom[p].type = 0 /\ atom[p].size = FreeSpace(p)

(***************************************************************************)
(* C22: the drain of an output sequence after run skips an event whose     *)
(* body size is zero and still copies the events that follow it to the     *)
(* DSP->UI ring; when the plugin left the container type 0, no event of    *)
(* the port is copied.                                                     *)
(***************************************************************************)
\* the events of a sequence with a body
NonEmpty(events) == {k \in DOMAIN events : Len(events[k].body) > 0}

\* the events of the cycle in progress handed to the ring of port p
Handed(p) == cyc[p].seen + InFlight(pushed[p])

C22_Drained ==
    \A p \in OutAtomPorts :
        (cyc'[p].done /\ ~cyc[p].done) =>
            IF atom[p].type = 0
            THEN Handed(p)' = 0
            ELSE ~cyc'[p].nospace =>
                    Handed(p)' = Cardinality(NonEmpty(atom[p].events))

C22_SkipZero == [][C22_Drained]_vars

(***************************************************************************)
(* C23: when the DSP->UI ring lacks write space for an output event, the   *)
(* event is dropped and the ring is left as it was, holding whole frames   *)
(* only; the cycle goes on, an event that fits is written to the ring      *)
(* whether or not an earlier event of the cycle was dropped, and a MIDI    *)
(* event goes to the JACK MIDI output whether or not its copy for the UI   *)
(* was dropped.                                                            *)
(***************************************************************************)
\* the bytes a ring holds, oldest first
RingContent(rb) == lv2_ringbuffer_peek(rb, lv2_ringbuffer_read_space(rb))

C23_Event ==
    (a_pc = "post" /\ a_ev > 0 /\ a_ev' = a_ev + 1) =>
        LET ev == sequence_event(atom[a_port], a_ev)
            rb == atom_state[a_port].dsp_to_ui
            after == atom_state'[a_port].dsp_to_ui
            total == SizeofAtom + Len(ev.body)
        IN  /\ IF rb.size - 1 - Len(RingContent(rb)) < total
               THEN after = rb /\ pushed' = pushed
               ELSE RingContent(after) = RingContent(rb) \o AtomBytes(ev)
            /\ RingContent(after) = QueueBytes(pushed'[a_port])
            /\ (ev.type = urids.midi_Event /\ ports[a_port].is_midi) =>
                  jack_midi'[a_port] =
                      Append(jack_midi[a_port], [time |-> ev.frames, buffer |-> ev.body])
            /\ a_pc' = "post"

C23_DropOnFull == [][C23_Event]_vars

\* the first event of a cycle, a MIDI event, found the ring full and went
\* to the JACK MIDI output only; the UI loop then read a frame, and the
\* second event of the cycle was written to the ring
C23_Witness ==
    /\ a_pc = "post"
    /\ a_port = 2
    /\ a_ev = 3
    /\ cyc[2].nospace
    /\ atom[2].events = << Event(urids.midi_Event, <<248>>), Event(urids.atom_Chunk, <<7>>) >>
    /\ jack_midi[2] = << [time |-> 0, buffer |-> <<248>>] >>
    /\ InFlight(pushed[2]) = 1
    /\ pushed[2][Len(pushed[2])].bytes = AtomBytes(Event(urids.atom_Chunk, <<7>>))


\* the shutdown window: a plugin with a worker interface, a control output
\* and an input atom port, after initUi; the UI keeps writing atom messages
\* until the window is closed
InitShut ==
    /\ UridQuiet /\ RingQuiet /\ AudioQuiet /\ LogQuiet
    /\ ports = << Port(0, "control", FALSE, FALSE, "level", 0),
                  Port(1, "atom", TRUE, FALSE, "control", 0) >>
    /\ shutdown = FALSE
    /\ run = FALSE
    /\ ui_dirty = FALSE
    /\ ui_needs_initial_update = TRUE
    /\ ui_needs_control_update = FALSE
    /\ jack_active = TRUE
    /\ preset_uri = ""
    /\ CtlQuiet
    /\ control = [p \in ControlPorts |-> 0]
    /\ atom = [p \in AtomPorts |-> AtomBuf(ports[p])]
    /\ atom_state = [p \in AtomPorts |-> AtomState(AtomRingSize)]
    /\ jack_midi = [p \in MidiPorts |-> << >>]
    /\ ui_pc = "start"
    /\ ui_port = 1
    /\ pushed = [p \in OutAtomPorts |-> << >>]
    /\ port_event = NoPortEvent
    /\ cyc = [p \in OutAtomPorts |-> NoCycle]
    /\ null_midi = FALSE
    /\ consumed = [p \in InAtomPorts |-> NoConsumed]
    /\ iface = TRUE
    /\ running = TRUE
    /\ requests = lv2_ringbuffer_create(WorkerRingSize)
    /\ responses = lv2_ringbuffer_create(WorkerRingSize)
    /\ w_pc = "loop"
    /\ w_data = << >>
    /\ LifeReady(TRUE)

ShutBuf == <<1, 0, 0, 0, 2, 0, 0, 0>>

NextShut ==
    \/ UiThread
    \/ ui_write(1, Len(ShutBuf), urids.atom_eventTransfer, ShutBuf)
    \/ run_ui_loop_delete
    \/ run_ui_loop_close
    \/ closeHost_enter
    \/ stop_worker
    \/ closeHost_ui
    \/ closeHost_jack
    \/ closeHost_free
    \/ process_enter(LifeMidi)
    \/ process_schedule_work(LifePayload)
    \/ process_schedule_work_data
    \/ plugin_run_return
    \/ process_deliver
    \/ process_no_rings
    \/ process_post_port
    \/ process_return
    \/ process_shutdown
    \/ WorkerLife

SpecShut == InitShut /\ [][NextShut]_vars

AudioAccess(log) == {a \in log : a.thread = "audio"}

\* C24: a process() call that finds shutdown set does nothing: no step taken
\* while shutdown is set and the audio thread is outside a cycle starts a
\* cycle (plugin.run), delivers a worker response, accesses a ring buffer from
\* the audio thread, takes the pending UI message or sets ui_dirty, and the
\* port buffers and control cells keep their contents for as long as the
\* ports exist.
C24_Step ==
    (shutdown /\ a_pc = "idle") =>
        /\ a_pc' = "idle" /\ cycle' = cycle
        /\ deliv_call' = deliv_call
        /\ AudioAccess(ring_access') = AudioAccess(ring_access)
        /\ Len(req_queue') <= Len(req_queue)
        /\ ui_dirty' = ui_dirty
        /\ ports' # << >> =>
              /\ atom' = atom
              /\ atom_state' = atom_state
              /\ consumed' = consumed
              /\ control' = control
              /\ pushed' = pushed
              /\ jack_midi' = jack_midi
C24_ShutdownNoOp == [][C24_Step]_vars

C24_Witness ==
    /\ shutdown /\ jack_active /\ a_pc = "idle" /\ cycle > 0
    /\ ports # << >> /\ atom_state[2].ui_to_dsp_pending
    /\ atom_state[2].ui_to_dsp = ShutBuf
    /\ ui_pc = "jack_deactivate"


WorkerBusy == w_pc \in {"work", "respond"}

C25_Joined ==
    /\ (Res("requests", 0) \in released \/ Res("responses", 0) \in released) =>
          w_pc = "none"
    /\ (closer # "none" /\ ui_pc \in {"destroy_ui", "jack_deactivate", "free", "exit", "done"}) =>
          ~running /\ w_pc = "none" /\ rings # "live"

C25_Step ==
    /\ (running /\ ~running') => ui_pc = "closeHost" /\ ui_pc' = "stop_worker"
    /\ (~running /\ WorkerBusy) =>
          /\ w_pc' = "loop" \/ WorkerBusy'
          /\ rings' = rings /\ ui_pc' \in {"closeHost", "stop_worker"}
    /\ (~running /\ w_pc = "loop") => w_pc' \in {"loop", "exited"}
    /\ (~running /\ ~WorkerBusy) => work_call' = work_call
    /\ (rings = "live" /\ rings' # "live") =>
          w_pc = "exited" /\ w_pc' = "none" /\ ui_pc = "stop_worker"

\* C25: stop_worker clears running and joins. A work call in progress when
\* the flag is cleared runs to its return with the rings in place and the
\* worker thread then leaves its loop; no work call starts once the flag is
\* cleared and the worker is outside a call, so none starts after the join;
\* the rings are freed only in the step after the join, and once stop_worker
\* has returned the worker thread is gone.
C25_StopWorker == [](C25_Joined) /\ [][C25_Step]_vars

\* stop_worker joined a worker that had run work calls and freed the rings
\* while a request was still queued
C25_Witness ==
    /\ ui_pc = "destroy_ui" /\ "join" \in Range(close_ops)
    /\ Res("worker_thread", 0) \in released /\ Res("requests", 0) \in released
    /\ work_call.n > 0 /\ req_queue # << >>
    /\ w_pc = "none" /\ ~running


TeardownOrder ==
    << "lilv_instance_deactivate", "join", "lv2_ringbuffer_free", "cleanup", "dlclose",
       "jack_port_unregister", "jack_deactivate", "jack_client_close",
       "lilv_instance_free", "XDestroyWindow", "XCloseDisplay", "free", "delete",
       "lilv_node_free", "lilv_world_free" >>

Rank(op) == CHOOSE i \in DOMAIN TeardownOrder : TeardownOrder[i] = op

\* C26: the release operations of a closeHost call happen in the order
\* deactivate, stop worker, UI cleanup and dlclose, port unregistration and
\* client close, instance free, X window and display, port atom buffers and
\* UI-channel state, world; the instance and the port buffers are released
\* only when the sound-server client, if one was opened, has been closed.
C26_TeardownOrder ==
    /\ \A i, j \in DOMAIN close_ops :
          i < j => Rank(close_ops[i]) < Rank(close_ops[j])
    /\ \A r \in released :
          (r[1] \in {"instance", "atom"} /\ Res("jack", 0) \in acquired) =>
              /\ Res("jack", 0) \in released
              /\ ~jack_active
              /\ \A q \in acquired : q[1] = "jack_port" => q \in released

\* a window close on a host with a worker, a UI and ports ran every step
C26_Witness ==
    /\ closer = "run_ui_loop" /\ ui_pc = "exit"
    /\ close_ops = TeardownOrder


\* the flags: the plugin of InitCtl from init to the end of the window-close
\* branch of run_ui_loop
NextFlag ==
    \/ NextCtl
    \/ run_ui_loop_delete
    \/ run_ui_loop_close
    \/ closeHost_enter
    \/ closeHost_ui
    \/ closeHost_jack
    \/ closeHost_free
    \/ process_shutdown

SpecFlag == InitCtl /\ [][NextFlag]_vars

LoopPcs == {"sleep", "dirty", "initial", "control", "drain"}

FlagSet == ui_dirty \/ ui_needs_initial_update \/ ui_needs_control_update

\* every audio cycle walks all the ports and sets ui_dirty at each control
\* output
C27_Cycle ==
    /\ (a_pc = "run" /\ a_pc' # "run") => a_pc' = "post" /\ a_port' = 1
    /\ (a_pc = "post" /\ a_pc' = "post") => a_port' \in {a_port, a_port + 1}
    /\ (a_pc = "post" /\ a_pc' # "post") => a_port > Len(ports) /\ ports # << >>
    /\ (a_pc = "post" /\ a_port' = a_port + 1 /\ a_port \in ControlOutputs) => ui_dirty'

\* one iteration passes the three tests once each, in order; a test hands
\* out its broadcast exactly when its flag was set, and clears the flag
C27_Iteration ==
    /\ (ui_pc = "sleep" /\ ui_pc' # "sleep") => ui_pc' \in {"dirty", "delete"}
    /\ (ui_pc = "dirty" /\ ui_pc' # "dirty") =>
          /\ ui_pc' = "initial" /\ ~ui_dirty'
          /\ broadcast' = IF ui_dirty THEN "send_control_outputs" ELSE "none"
    /\ (ui_pc = "initial" /\ ui_pc' # "initial") =>
          /\ ui_pc' = "control" /\ ~ui_needs_initial_update'
          /\ broadcast' = IF ui_needs_initial_update THEN "send_initial_ui_values"
                          ELSE "none"
    /\ (ui_pc = "control" /\ ui_pc' # "control") =>
          /\ ui_pc' = "drain" /\ ~ui_needs_control_update'
          /\ broadcast' = IF ui_needs_control_update THEN "send_control_values"
                          ELSE "none"
    /\ (ui_pc = "drain" /\ ui_pc' # "drain") => ui_pc' = "sleep"

\* a flag that is set stays set until its own test: a store by the audio
\* thread or by apply_preset is not lost
C27_NotLost ==
    /\ (ui_dirty /\ ~ui_dirty') => ui_pc = "dirty"
    /\ (ui_needs_control_update /\ ~ui_needs_control_update') => ui_pc = "control"
    /\ (ui_needs_initial_update /\ ~ui_needs_initial_update') =>
          ui_pc = "initial" \/ ui_pc \in {"main", "restore"}
    /\ (ui_pc \in {"main", "restore"} /\ preset_call' # preset_call
          /\ preset_call'.kind \notin FailedKinds) => ui_needs_control_update'

\* the iteration that handles the window-close message returns before the
\* tests: no broadcast, and the flags are left as they are
C27_Close ==
    (ui_pc = "sleep" /\ ui_pc' = "delete") =>
        /\ broadcast' = broadcast
        /\ <<ui_dirty, ui_needs_initial_update, ui_needs_control_update>>' =
              <<ui_dirty, ui_needs_initial_update, ui_needs_control_update>>

\* C27, as amended: every audio cycle of a plugin with an output control
\* port sets ui_dirty; an iteration of the UI loop that does not handle a
\* window-close message serves each flag that is set when its test is reached
\* with the corresponding broadcast, once, and clears it; a flag stays set
\* until its test; a successful apply_preset leaves ui_needs_control_update
\* set for the first such iteration. The iteration that handles the
\* window-close message broadcasts nothing and clears no flag.
C27_FlagProtocol ==
    [][C27_Cycle /\ C27_Iteration /\ C27_NotLost /\ C27_Close]_vars

\* C27, as stated: an iteration that starts with a flag set goes on to the
\* flag tests
C27_AsStated ==
    [][(ui_pc = "sleep" /\ run /\ FlagSet /\ ui_pc' # "sleep") => ui_pc' = "dirty"]_vars

\* the audio thread stored ui_dirty again after the test of this iteration
\* handed out the control outputs, with the preset's control update pending
C27_Witness ==
    /\ ui_pc = "initial" /\ broadcast = "send_control_outputs"
    /\ ui_dirty /\ ui_needs_control_update /\ ~ui_needs_initial_update
    /\ cycle = 2


RECURSIVE ResponseBytes(_)
ResponseBytes(q) ==
    IF q = << >> THEN << >>
    ELSE Enc32(Len(Head(q).data)) \o Head(q).data \o ResponseBytes(Tail(q))

\* the response ring holds the frames of the accepted responses, oldest
\* first, and behind them at most the size header of the one being written
C28_Queued ==
    RingContent(responses) =
        ResponseBytes(resp_queue) \o (IF w_pc = "respond" THEN Enc32(Len(w_data)) ELSE << >>)

C28_Step ==
    /\ (resp_ret' # resp_ret /\ resp_ret'.status = "LV2_WORKER_ERR_NO_SPACE") =>
          /\ lv2_ringbuffer_write_space(responses) < SizeofU32 + Len(resp_ret'.data)
          /\ responses' = responses
          /\ resp_queue' = resp_queue
          /\ w_pc = "work" /\ w_pc' = "work"
    /\ (w_pc = "work" /\ w_pc' = "respond") =>
          ~(lv2_ringbuffer_write_space(responses) < SizeofU32 + Len(w_data'))
    /\ deliv_call'.n # deliv_call.n =>
          /\ resp_queue # << >>
          /\ deliv_call'.data = Head(resp_queue).data
          /\ deliv_call'.size = Len(Head(resp_queue).data)
          /\ resp_queue' = Tail(resp_queue)

\* C28: host_respond returns the no-space status exactly when the response
\* ring has less than 4 + size bytes of write space; the call then leaves
\* the ring and the queue of accepted responses as they were, and every
\* accepted response is still handed to work_response whole and in the
\* order of acceptance.
C28_RespondAtomic == []C28_Queued /\ [][C28_Step]_vars

\* a response was refused for lack of space, and the two responses queued
\* before it were delivered while the work call was still running
C28_Witness ==
    /\ resp_ret.status = "LV2_WORKER_ERR_NO_SPACE" /\ resp_ret.data = <<90, 90>>
    /\ w_pc = "work" /\ deliv_call.n = 2 /\ resp_queue = << >>
    /\ deliv_call.data = <<65>>


\* the port declarations a plugin can make
PortDecls ==
    { [kind |-> "audio", is_input |-> TRUE, is_midi |-> FALSE],
      [kind |-> "audio", is_input |-> FALSE, is_midi |-> FALSE],
      [kind |-> "control", is_input |-> TRUE, is_midi |-> FALSE],
      [kind |-> "control", is_input |-> FALSE, is_midi |-> FALSE],
      [kind |-> "atom", is_input |-> TRUE, is_midi |-> TRUE],
      [kind |-> "atom", is_input |-> FALSE, is_midi |-> TRUE],
      [kind |-> "atom", is_input |-> TRUE, is_midi |-> FALSE],
      [kind |-> "atom", is_input |-> FALSE, is_midi |-> FALSE] }

DeclPort(i, d) == Port(i, d.kind, d.is_input, d.is_midi, "sym", 0)

PortLists == { << DeclPort(0, a), DeclPort(1, b) >> : a, b \in PortDecls }

\* the main thread from construction to the end of the destructor, for
\* every pair of port declarations; the audio server makes no process call
NextPorts ==
    \/ \E pl \in Plugins \cup {NoPlugin} : init_lilv(pl)
    \/ \E ok \in BOOLEAN : init_jack(ok)
    \/ \E ps \in PortLists : init_ports(ps)
    \/ \E instantiated \in BOOLEAN : init_instance(instantiated)
    \/ main_no_preset
    \/ initUi_ok
    \/ \E outcome \in InitUiOutcomes : initUi_fail(outcome)
    \/ UiThread
    \/ run_ui_loop_delete
    \/ run_ui_loop_close
    \/ destructor
    \/ closeHost_enter
    \/ stop_worker
    \/ worker_thread_exit
    \/ closeHost_ui
    \/ closeHost_jack
    \/ closeHost_free

SpecPorts == InitLife /\ [][NextPorts]_vars

JackPorts(rs) == {r[2] : r \in {q \in rs : q[1] = "jack_port"}}

PortsDone == \E i \in DOMAIN init_log : init_log[i] = Stage("init_ports", TRUE)

RaceMsgs ==
    { [type |-> urids.atom_eventTransfer, buf |-> <<1, 0, 0, 0>>],
      [type |-> 0, buf |-> <<2, 0, 0, 0, 2, 0, 0, 0>>] }

\* what a read past the end of the vector's elements can find
RaceGarbage == {0, 170}

\* std::vector<uint8_t>::resize(size)
vector_resize(v, size) ==
    IF size <= Len(v) THEN SubSeq(v, 1, size)
    ELSE v \o [i \in 1..(size - Len(v)) |-> 0]

RaceUnchangedUi ==
    /\ UNCHANGED <<ports, shutdown, consumed, flag_vars, control, atom, jack_midi,
                   ui_port, obs_vars, ctl_vars>>
    /\ UNCHANGED <<life_vars, urid_vars, ring_vars, worker_vars, audio_vars, log_vars>>

\* p.atom_state->ui_to_dsp.resize(size)
ui_write_resize(port, m) ==
    /\ ui_pc = "drain"
    /\ ui_port > Len(ports)
    /\ port + 1 \in DOMAIN ports
    /\ ports[port + 1].is_atom
    /\ ~(ports[port + 1].is_control /\ Len(m.buf) = SizeofFloat)
    /\ atom_state' = [atom_state EXCEPT ![port + 1].ui_to_dsp =
                         vector_resize(@, Len(m.buf))]
    /\ ui_pc' = "ui_write_memcpy"
    /\ RaceUnchangedUi

\* memcpy(p.atom_state->ui_to_dsp.data(), buf, size)
ui_write_memcpy(port, m) ==
    /\ ui_pc = "ui_write_memcpy"
    /\ Len(atom_state[port + 1].ui_to_dsp) = Len(m.buf)
    /\ atom_state' = [atom_state EXCEPT ![port + 1].ui_to_dsp = m.buf]
    /\ ui_pc' = "ui_write_type"
    /\ RaceUnchangedUi

\* p.atom_state->ui_to_dsp_type = type
ui_write_type(port, m) ==
    /\ ui_pc = "ui_write_type"
    /\ atom_state[port + 1].ui_to_dsp = m.buf
    /\ atom_state' = [atom_state EXCEPT ![port + 1].ui_to_dsp_type = m.type]
    /\ ui_pc' = "ui_write_pending"
    /\ RaceUnchangedUi

\* p.atom_state->ui_to_dsp_pending.store(true, std::memory_order_release)
ui_write_pending(port) ==
    /\ ui_pc = "ui_write_pending"
    /\ atom_state' = [atom_state EXCEPT ![port + 1].ui_to_dsp_pending = TRUE]
    /\ ui_pc' = "drain"
    /\ RaceUnchangedUi

RaceUnchangedAudio ==
    /\ UNCHANGED <<a_data, a_port, a_ev>>
    /\ UNCHANGED <<ports, shutdown, flag_vars, control, jack_midi, ui_vars, obs_vars,
                   ctl_vars>>
    /\ UNCHANGED <<life_vars, urid_vars, ring_vars, worker_vars, log_vars>>

\* process up to if (p.atom_state->ui_to_dsp_pending.exchange(false)), for
\* a plugin whose one port is the input atom port p without MIDI
process_exchange(p) ==
    /\ jack_active
    /\ a_pc = "idle"
    /\ ~process_returns_early(shutdown)
    /\ cycle' = Min(cycle + 1, CycleCap)
    /\ atom_state' = [atom_state EXCEPT ![p].ui_to_dsp_pending = FALSE]
    /\ consumed' = [consumed EXCEPT
                       ![p] = [NoConsumed EXCEPT
                                  !.pending = atom_state[p].ui_to_dsp_pending]]
    \* p.atom->atom.type = urids.atom_Sequence; p.atom->atom.size = 0
    /\ atom' = IF atom_state[p].ui_to_dsp_pending
               THEN [atom EXCEPT ![p].type = urids.atom_Sequence, ![p].size = 0]
               ELSE atom
    /\ a_pc' = IF atom_state[p].ui_to_dsp_pending THEN "ui_size" ELSE "run"
    /\ RaceUnchangedAudio

\* const uint32_t body_size = p.atom_state->ui_to_dsp.size(); the event
\* body in evbuf has that size from here on
process_body_size(p) ==
    /\ a_pc = "ui_size"
    /\ consumed' = [consumed EXCEPT
                       ![p].buf = [i \in 1..Len(atom_state[p].ui_to_dsp) |-> 0]]
    /\ a_pc' = "ui_type"
    /\ UNCHANGED <<cycle, atom, atom_state>>
    /\ RaceUnchangedAudio

\* ev->body.type = p.atom_state->ui_to_dsp_type
process_body_type(p) ==
    /\ a_pc = "ui_type"
    /\ consumed' = [consumed EXCEPT ![p].type = atom_state[p].ui_to_dsp_type]
    /\ a_pc' = "ui_copy"
    /\ UNCHANGED <<cycle, atom, atom_state>>
    /\ RaceUnchangedAudio

\* memcpy(LV2_ATOM_BODY(&ev->body), p.atom_state->ui_to_dsp.data(), body_size)
\* and lv2_atom_sequence_append_event; the bytes past the end of a vector
\* that shrank in the meantime are whatever the heap holds
process_body_copy(p, garbage) ==
    /\ a_pc = "ui_copy"
    /\ LET v == atom_state[p].ui_to_dsp
           body_size == Len(consumed[p].buf)
           body == [i \in 1..body_size |-> IF i <= Len(v) THEN v[i] ELSE garbage]
       IN  /\ consumed' = [consumed EXCEPT ![p].buf = body,
                                          ![p].copied = <<scratch_memcpy(body_size)>>]
           /\ atom' = [atom EXCEPT ![p] =
                          lv2_atom_sequence_append_event(
                              atom[p], ports[p].atom_buf_size,
                              Event(consumed[p].type, body))]
    /\ a_pc' = "run"
    /\ UNCHANGED <<cycle, atom_state>>
    /\ RaceUnchangedAudio

RacePort == 1

\* a plugin without a worker interface whose one port is an input atom
\* port without MIDI, after initUi
InitRace ==
    /\ UridQuiet /\ RingQuiet /\ WorkerQuiet /\ AudioQuiet /\ LogQuiet
    /\ ports = << Port(0, "atom", TRUE, FALSE, "control", 0) >>
    /\ shutdown = FALSE
    /\ run = FALSE
    /\ ui_dirty = FALSE
    /\ ui_needs_initial_update = TRUE
    /\ ui_needs_control_update = FALSE
    /\ jack_active = TRUE
    /\ preset_uri = ""
    /\ CtlQuiet
    /\ control = << >>
    /\ atom = [p \in AtomPorts |-> AtomBuf(ports[p])]
    /\ atom_state = [p \in AtomPorts |-> AtomState(AtomRingSize)]
    /\ jack_midi = [p \in MidiPorts |-> << >>]
    /\ ui_pc = "start"
    /\ ui_port = 1
    /\ pushed = [p \in OutAtomPorts |-> << >>]
    /\ port_event = NoPortEvent
    /\ cyc = [p \in OutAtomPorts |-> NoCycle]
    /\ null_midi = FALSE
    /\ consumed = [p \in InAtomPorts |-> NoConsumed]
    /\ LifeReady(TRUE)

NextRace ==
    \/ UiThread
    \/ \E m \in RaceMsgs : ui_write_resize(RacePort - 1, m)
    \/ \E m \in RaceMsgs : ui_write_memcpy(RacePort - 1, m)
    \/ \E m \in RaceMsgs : ui_write_type(RacePort - 1, m)
    \/ ui_write_pending(RacePort - 1)
    \/ process_exchange(RacePort)
    \/ process_body_size(RacePort)
    \/ process_body_type(RacePort)
    \/ \E garbage \in RaceGarbage : process_body_copy(RacePort, garbage)
    \/ plugin_run_return
    \/ process_post_port
    \/ process_return

SpecRace == InitRace /\ [][NextRace]_vars

\* C30: the UI message process hands to the plugin is never torn: its type
\* and its body, and so its size, are those of one ui_write call.
C30_NotTorn ==
    \A p \in InAtomPorts :
        (a_pc = "run" /\ consumed[p].pending) =>
            \E m \in RaceMsgs :
                /\ consumed[p].type = m.type
                /\ consumed[p].buf = m.buf


\* the steps of the audio thread inside a cycle up to the end of
\* deliver_worker_responses: lilv_instance_run and the delivery loop
InRun == a_pc \in {"run", "sched"}

\* C31: the audio callback is quiesced before closeHost dismantles what it
\* uses: no step of the audio thread applies a ring operation to a worker
\* ring that stop_worker has freed, work_response is called only while the
\* instance is activated, and lilv_instance_run is neither entered nor in
\* progress once the instance was deactivated.
C31_Step ==
    /\ a_pc' # a_pc => bad' = bad
    /\ deliv_call'.n # deliv_call.n => activated
    /\ (InRun /\ a_pc' # a_pc) => activated
C31_Quiesced == [][C31_Step]_vars


(***************************************************************************)
(* The scratch event of process()                                          *)
(***************************************************************************)
\* the messages the UI hands to ui_write: a small one, and one a byte
\* longer than the body of the scratch event
ScratchBufs ==
    { <<1, 0, 0, 0>>,
      [i \in 1..(ScratchBody + 1) |-> 0] }

\* a plugin with a MIDI input atom port and a second input atom port, its
\* UI writing messages of any size to them
NextScratch ==
    \/ UiThread
    \/ \E port \in 0..(Len(ports) - 1), buf \in ScratchBufs :
          ui_write(port, Len(buf), urids.atom_eventTransfer, buf)
    \/ \E midi_in \in MidiInputs : process_enter(midi_in)
    \/ plugin_run_return
    \/ process_post_port
    \/ process_return

SpecScratch == InitIn /\ [][NextScratch]_vars

\* C32: no copy into the stack scratch event of process() writes more body
\* bytes than the scratch event has after its header (required_atom_size),
\* whatever the size of the host MIDI events and of the UI->DSP message that
\* ui_write accepted.
C32_ScratchBound ==
    \A p \in DOMAIN consumed :
        \A k \in DOMAIN consumed[p].copied : consumed[p].copied[k] <= ScratchBody


(***************************************************************************)
(* The MIDI output of process()                                            *)
(***************************************************************************)
\* a plugin with two output atom ports after init: the first supports MIDI
\* events and has a JACK MIDI port, the second does not
InitMidiOut ==
    /\ UridQuiet /\ RingQuiet /\ WorkerQuiet /\ AudioQuiet /\ LogQuiet
    /\ ports = << Port(0, "atom", FALSE, TRUE, "midi_out", 0),
                  Port(1, "atom", FALSE, FALSE, "notify", 0) >>
    /\ shutdown = FALSE
    /\ run = FALSE
    /\ ui_dirty = FALSE
    /\ ui_needs_initial_update = TRUE
    /\ ui_needs_control_update = FALSE
    /\ jack_active = TRUE
    /\ preset_uri = ""
    /\ CtlQuiet
    /\ control = << >>
    /\ atom = [p \in AtomPorts |-> AtomBuf(ports[p])]
    /\ atom_state = [p \in AtomPorts |-> AtomState(AtomRingSize)]
    /\ jack_midi = [p \in MidiPorts |-> << >>]
    /\ ui_pc = "start"
    /\ ui_port = 1
    /\ pushed = [p \in OutAtomPorts |-> << >>]
    /\ port_event = NoPortEvent
    /\ cyc = [p \in OutAtomPorts |-> NoCycle]
    /\ null_midi = FALSE
    /\ consumed = [p \in InAtomPorts |-> NoConsumed]
    /\ LifeReady(TRUE)

\* the audio cycles of that plugin; the UI loop is not running, so the
\* DSP->UI rings fill up
NextMidiOut == AtomAudioThread

SpecMidiOut == InitMidiOut /\ [][NextMidiOut]_vars

\* C33: process() hands a MIDI event of an output atom sequence to
\* jack_midi_event_write only with the buffer of that port's own JACK MIDI
\* port: the call is never made with a null buffer, and once the loop after
\* run has come to a port, the JACK MIDI buffer of that port holds only MIDI
\* events of that port's own sequence.
C33_Own ==
    a_pc = "post" =>
        \A p \in {q \in DOMAIN jack_midi : a_port > q \/ (a_port = q /\ a_ev > 0)} :
            \A k \in DOMAIN jack_midi[p] :
                \E e \in DOMAIN atom[p].events :
                    /\ atom[p].events[e].type = urids.midi_Event
                    /\ atom[p].events[e].body = jack_midi[p][k].buffer
C33_OwnBuffer == ~null_midi /\ C33_Own


\* the plugin's run reads the cell of control input p, no preset was
\* selected and the UI has not written the cell
RunsUnwritten(p) == a_pc = "run" /\ preset_uri = "" /\ ~ui_written[p].set

\* C34, first half: when no preset was selected, every input control cell
\* holds its declared default whenever the plugin's run is called before a
\* UI write to it, the cycles before the first UI-loop iteration included.
C34_Defaults ==
    \A p \in ControlInputs : RunsUnwritten(p) => control[p] = ports[p].defvalue

\* C34, second half: a successful apply_preset leaves
\* ui_needs_initial_update clear, and with a preset selected a clear flag is
\* never set again and the flag test of the UI loop runs no initial-defaults
\* broadcast, so no step puts the defaults over the preset values.
C34_Step ==
    /\ (preset_call' # preset_call /\ preset_call'.kind \in PresetKinds \ FailedKinds)
          => ~ui_needs_initial_update'
    /\ (preset_uri # "" /\ ~ui_needs_initial_update) =>
          /\ ~ui_needs_initial_update'
          /\ ui_pc = "initial" => broadcast' # "send_initial_ui_values"
C34_Protected == [][C34_Step]_vars

\* C34: control-cell initial values and preset protection, both halves.
C34_InitialValues == []C34_Defaults /\ C34_Protected

====
